---------------------------- MODULE Spec2Model ----------------------------
(***************************************************************************)
(* Model of the WebJSON fetch-and-parse pipeline (app/webjson.py) and of   *)
(* the inventory matrix builder (app/inventory_formatter.py).              *)
(*                                                                         *)
(* Python strings are sequences of one-character strings, so that split,   *)
(* strip, upper, slicing and lexicographic comparison are computed.        *)
(* JSON scalars are records [t, n, s]: a type tag, a number and a string.  *)
(* A call that raises is the value Raised.                                 *)
(***************************************************************************)
EXTENDS Integers, Sequences, FiniteSets, TLC

(***************************************************************************)
(* Bounds of the model.                                                    *)
(***************************************************************************)
\* longest slug the caller passes
MaxSlugLen == 3
\* response bodies are up to this many characters longer than the snippet cut
MaxOver == 1
\* most rows of a row list handed to the matrix builder
MaxRows == 2
\* most entries of one stock map of a generated payload
MaxStock == 2

\* most warehouses and most sizes of a product of the ordering specification
MaxWarehouses == 3
MaxSizes == 3

\* most entries of a price map and of a pricing_data dict
MaxPrices == 2

\* most tokens of the caller's list of styles
MaxTokens == 3

\* most products of a batch
MaxItems == 2

(***************************************************************************)
(* Characters and strings.                                                 *)
(***************************************************************************)
\* the characters of the model, in code point order
AsciiOrder ==
    << "\n", " ", "$", "+", ",", "-", ".", "/",
       "0", "1", "2", "3", "4", "5", "6", "7", "8", "9", ":",
       "A", "B", "C", "D", "E", "F", "G", "H", "I", "J", "K", "L", "M",
       "N", "O", "P", "Q", "R", "S", "T", "U", "V", "W", "X", "Y", "Z",
       "_",
       "a", "b", "c", "d", "e", "f", "g", "h", "i", "j", "k", "l", "m",
       "n", "o", "p", "q", "r", "s", "t", "u", "v", "w", "x", "y", "z" >>

Ord(c) == CHOOSE i \in 1..Len(AsciiOrder) : AsciiOrder[i] = c

Digits == << "0", "1", "2", "3", "4", "5", "6", "7", "8", "9" >>

IsDigit(c) == \E i \in 1..10 : Digits[i] = c

DigitVal(c) == (CHOOSE i \in 1..10 : Digits[i] = c) - 1

IsLower(c) == Ord(c) >= Ord("a") /\ Ord(c) <= Ord("z")

IsSpace(c) == c \in {" ", "\n"}

\* str.upper of one character
UpperChar(c) == IF IsLower(c) THEN AsciiOrder[Ord(c) - Ord("a") + Ord("A")] ELSE c

\* str.upper
Upper(s) == [i \in 1..Len(s) |-> UpperChar(s[i])]

RECURSIVE LStrip(_)
LStrip(s) == IF s # <<>> /\ IsSpace(Head(s)) THEN LStrip(Tail(s)) ELSE s

RECURSIVE RStrip(_)
RStrip(s) ==
    IF s # <<>> /\ IsSpace(s[Len(s)]) THEN RStrip(SubSeq(s, 1, Len(s) - 1)) ELSE s

\* str.strip
Strip(s) == RStrip(LStrip(s))

\* s < t for Python strings: lexicographic by code point
RECURSIVE StrLess(_, _)
StrLess(s, t) ==
    IF t = <<>> THEN FALSE
    ELSE IF s = <<>> THEN TRUE
    ELSE IF Head(s) = Head(t) THEN StrLess(Tail(s), Tail(t))
    ELSE Ord(Head(s)) < Ord(Head(t))

\* s[:n]
Prefix(s, n) == SubSeq(s, 1, IF Len(s) < n THEN Len(s) ELSE n)

\* s.replace(a, b) for one-character a and b
Replace(s, a, b) == [i \in 1..Len(s) |-> IF s[i] = a THEN b ELSE s[i]]

\* c in s
Contains(s, c) == \E i \in 1..Len(s) : s[i] = c

FirstIndex(s, c) == CHOOSE i \in 1..Len(s) : s[i] = c /\ \A j \in 1..(i - 1) : s[j] # c

\* s.split(c, 1)[0]
SplitHead(s, c) == IF Contains(s, c) THEN SubSeq(s, 1, FirstIndex(s, c) - 1) ELSE s

\* s.split(c, 1)[1], for s that contains c
SplitTail(s, c) == SubSeq(s, FirstIndex(s, c) + 1, Len(s))

\* the sequences over alphabet of length at most n
RECURSIVE SeqsUpTo(_, _)
SeqsUpTo(alphabet, n) ==
    IF n = 0 THEN {<<>>}
    ELSE LET shorter == SeqsUpTo(alphabet, n - 1)
         IN  shorter \cup {Append(s, c) : s \in shorter, c \in alphabet}

(***************************************************************************)
(* JSON scalars and Python's coercions of them.                            *)
(***************************************************************************)
JNull == [t |-> "null", n |-> 0, s |-> <<>>]
JStr(s) == [t |-> "str", n |-> 0, s |-> s]
JInt(n) == [t |-> "int", n |-> n, s |-> <<>>]
\* a float, held in hundredths
JFloat(h) == [t |-> "float", n |-> h, s |-> <<>>]
JNaN == [t |-> "nan", n |-> 0, s |-> <<>>]
JBool(b) == [t |-> "bool", n |-> IF b THEN 1 ELSE 0, s |-> <<>>]

\* a call that raised
Raised == [raised |-> TRUE]

\* Python truthiness of a JSON scalar
Truthy(v) ==
    CASE v.t = "null" -> FALSE
      [] v.t = "str" -> v.s # <<>>
      [] v.t = "nan" -> TRUE
      [] OTHER -> v.n # 0

\* a or b
Or(a, b) == IF Truthy(a) THEN a ELSE b

RECURSIVE DigitsValue(_, _)
DigitsValue(s, acc) ==
    IF s = <<>> THEN acc ELSE DigitsValue(Tail(s), 10 * acc + DigitVal(Head(s)))

AllDigits(s) == s # <<>> /\ \A i \in 1..Len(s) : IsDigit(s[i])

\* int(s) for a string: surrounding whitespace, an optional sign, decimal digits
IntOfStr(s) ==
    LET body == Strip(s)
        signed == body # <<>> /\ Head(body) \in {"+", "-"}
        digits == IF signed THEN Tail(body) ELSE body
    IN  IF ~AllDigits(digits) THEN Raised
        ELSE [raised |-> FALSE,
              v |-> IF signed /\ Head(body) = "-"
                    THEN 0 - DigitsValue(digits, 0)
                    ELSE DigitsValue(digits, 0)]

\* int(v): truncation of a float, ValueError or TypeError otherwise
IntOf(v) ==
    CASE v.t = "int" -> [raised |-> FALSE, v |-> v.n]
      [] v.t = "bool" -> [raised |-> FALSE, v |-> v.n]
      [] v.t = "float" ->
            [raised |-> FALSE,
             v |-> IF v.n >= 0 THEN v.n \div 100 ELSE 0 - ((0 - v.n) \div 100)]
      [] v.t = "str" -> IntOfStr(v.s)
      [] OTHER -> Raised

\* float(s) for a string, in hundredths: surrounding whitespace, an optional
\* sign, digits, and at most two decimals (the decimals the model's payloads use)
FloatOfStr(s) ==
    LET body == Strip(s)
        signed == body # <<>> /\ Head(body) \in {"+", "-"}
        num == IF signed THEN Tail(body) ELSE body
        whole == SplitHead(num, ".")
        frac == IF Contains(num, ".") THEN SplitTail(num, ".") ELSE <<>>
        wellFormed ==
            /\ (whole = <<>> \/ AllDigits(whole))
            /\ (frac = <<>> \/ (AllDigits(frac) /\ Len(frac) <= 2))
            /\ (whole # <<>> \/ frac # <<>>)
        hundredths ==
            100 * DigitsValue(whole, 0)
            + (IF Len(frac) = 1 THEN 10 * DigitsValue(frac, 0) ELSE DigitsValue(frac, 0))
    IN  IF ~wellFormed THEN Raised
        ELSE [raised |-> FALSE,
              v |-> IF signed /\ Head(body) = "-" THEN 0 - hundredths ELSE hundredths]

\* float(v), in hundredths
FloatOf(v) ==
    CASE v.t = "int" -> [raised |-> FALSE, v |-> 100 * v.n]
      [] v.t = "bool" -> [raised |-> FALSE, v |-> 100 * v.n]
      [] v.t = "float" -> [raised |-> FALSE, v |-> v.n]
      [] v.t = "str" -> FloatOfStr(v.s)
      [] OTHER -> Raised

\* str(v) of a warehouse code: the string itself, "None" for a missing code
StrOf(v) == IF v.t = "str" THEN v.s ELSE << "N", "o", "n", "e" >>

(***************************************************************************)
(* parse_inventory_json (app/webjson.py).                                  *)
(*                                                                         *)
(* A payload is [t, product, warehouses]; t = "list" is a JSON document    *)
(* whose top level is not an object.  A Python dict is the sequence of its *)
(* <<key, value>> pairs, in insertion order, with distinct keys.           *)
(***************************************************************************)
\* key in d, and d[key], for a dict held as a sequence of pairs
DictHas(d, key) == \E i \in 1..Len(d) : d[i][1] = key

DictGet(d, key) == d[CHOOSE i \in 1..Len(d) : d[i][1] = key][2]

\* the warehouses dict: str(code) -> shortName or name or str(code); a later
\* entry of the list overwrites an earlier one with the same code
RECURSIVE WarehouseNames(_)
WarehouseNames(ws) ==
    IF ws = <<>> THEN <<>>
    ELSE LET w == ws[Len(ws)]
             key == StrOf(w.code)
             name == Or(Or(w.shortName, w.name), JStr(StrOf(w.code))).s
             before == WarehouseNames(SubSeq(ws, 1, Len(ws) - 1))
         IN  IF DictHas(before, key)
             THEN [i \in 1..Len(before) |->
                      IF before[i][1] = key THEN <<key, name>> ELSE before[i]]
             ELSE Append(before, <<key, name>>)

\* the first formattedValue of the entries from index i on that float() accepts
RECURSIVE FirstPrice(_, _)
FirstPrice(price_map, i) ==
    IF i > Len(price_map) THEN JNull
    ELSE LET fv == price_map[i][2]
         IN  IF Truthy(fv) /\ ~FloatOf(fv).raised
             THEN JFloat(FloatOf(fv).v)
             ELSE FirstPrice(price_map, i + 1)

\* extract_price without the preferred keys
PriceOfFirstEntry(price_map, keys) == FirstPrice(price_map, 1)

\* extract_price: key "3", then "UPG", then the first entry with a number
RECURSIVE PreferredPrice(_, _)
PreferredPrice(price_map, keys) ==
    IF keys = <<>> THEN FirstPrice(price_map, 1)
    ELSE LET key == Head(keys)
         IN  IF /\ DictHas(price_map, key)
                /\ Truthy(DictGet(price_map, key))
                /\ ~FloatOf(DictGet(price_map, key)).raised
             THEN JFloat(FloatOf(DictGet(price_map, key)).v)
             ELSE PreferredPrice(price_map, Tail(keys))

extract_price(price_map) ==
    IF price_map = <<>> THEN JNull ELSE PreferredPrice(price_map, << "3", "UPG" >>)

\* the value of the first qualifier named "size", None when there is none
RECURSIVE SizeOf(_)
SizeOf(qualifiers) ==
    IF qualifiers = <<>> THEN JNull
    ELSE IF Head(qualifiers).qualifier = "size" THEN Head(qualifiers).value
    ELSE SizeOf(Tail(qualifiers))

\* color_from_slug
ColorFromSlug(slug) ==
    IF slug # <<>> /\ Contains(slug, "_") THEN SplitTail(slug, "_") ELSE <<>>

\* the row appended for one stock entry
MakeRow(product, warehouses, slug, size, price, whse_id, qty_int) ==
    [style |-> Or(Or(JStr(slug), product.baseProduct), Or(product.code, JStr(<<>>))).s,
     partId |-> <<>>,
     color |-> ColorFromSlug(slug),
     size |-> Or(size, JStr(<<>>)).s,
     description |-> Or(product.name, JStr(<<>>)).s,
     warehouseId |-> whse_id,
     warehouse |-> IF DictHas(warehouses, whse_id) THEN DictGet(warehouses, whse_id) ELSE <<>>,
     qty |-> qty_int,
     totalAvailable |-> JNull,
     price |-> price]

\* the loop over one stock map left at the first entry int() rejects
RECURSIVE StockRowsUntilRejected(_, _, _, _, _, _)
StockRowsUntilRejected(product, warehouses, slug, size, price, stock_map) ==
    IF stock_map = <<>> \/ IntOf(Head(stock_map)[2]).raised THEN <<>>
    ELSE <<MakeRow(product, warehouses, slug, size, price, Head(stock_map)[1],
                   IntOf(Head(stock_map)[2]).v)>>
         \o StockRowsUntilRejected(product, warehouses, slug, size, price, Tail(stock_map))

\* the loop over one stock map: an entry int() rejects is skipped (continue)
RECURSIVE StockRows(_, _, _, _, _, _)
StockRows(product, warehouses, slug, size, price, stock_map) ==
    IF stock_map = <<>> THEN <<>>
    ELSE LET whse_id == Head(stock_map)[1]
             qty == IntOf(Head(stock_map)[2])
             rest == StockRows(product, warehouses, slug, size, price, Tail(stock_map))
         IN  IF qty.raised THEN rest
             ELSE <<MakeRow(product, warehouses, slug, size, price, whse_id, qty.v)>>
                  \o rest

\* stockLevelsMap or availableStockMap
StockMapOf(opt) ==
    IF opt.stockLevelsMap # <<>> THEN opt.stockLevelsMap ELSE opt.availableStockMap

\* the rows of one variant option
VariantRows(product, warehouses, slug, opt) ==
    StockRows(product, warehouses, slug, SizeOf(opt.qualifiers),
              extract_price(opt.priceDataMap), StockMapOf(opt))

RECURSIVE OptionsRows(_, _, _, _)
OptionsRows(product, warehouses, slug, opts) ==
    IF opts = <<>> THEN <<>>
    ELSE VariantRows(product, warehouses, slug, Head(opts))
         \o OptionsRows(product, warehouses, slug, Tail(opts))

\* the payloads the parser raises on: a top level that is no object
\* (AttributeError on data.get) and variantOptions null (TypeError in the loop)
ParserRaises(data) == data.t # "obj" \/ data.product.variantOptions.isNull

parse_inventory_json(data, slug) ==
    IF ParserRaises(data) THEN Raised
    ELSE [raised |-> FALSE,
          rows |-> OptionsRows(data.product, WarehouseNames(data.warehouses), slug,
                               data.product.variantOptions.items)]

(***************************************************************************)
(* The inventory matrix (app/inventory_formatter.py).                      *)
(*                                                                         *)
(* A table is [kind, message, columns, rows]: kind "empty" is              *)
(* pd.DataFrame(), kind "message" the one-cell table, kind "grid" the      *)
(* matrix, whose rows are [label, cells], cells holding one JSON scalar    *)
(* per column.                                                             *)
(***************************************************************************)
PriceLabel == << "P", "r", "i", "c", "e", ":", " ", "$" >>
CaseSizeLabel == << "C", "a", "s", "e", " ", "S", "i", "z", "e" >>
HeaderLabel == << "W", "a", "r", "e", "h", "o", "u", "s", "e" >>
TotalLabel == << "T", "o", "t", "a", "l", " ", "I", "n", "v", "e", "n", "t", "o", "r", "y" >>
WarehousePrefix == << "W", "a", "r", "e", "h", "o", "u", "s", "e", " " >>

known_order ==
    << << "D", "a", "l", "l", "a", "s", ",", " ", "T", "X" >>,
       << "C", "i", "n", "c", "i", "n", "n", "a", "t", "i", ",", " ", "O", "H" >>,
       << "R", "i", "c", "h", "m", "o", "n", "d", ",", " ", "V", "A" >>,
       << "J", "a", "c", "k", "s", "o", "n", "v", "i", "l", "l", "e", ",", " ", "F", "L" >>,
       << "P", "h", "o", "e", "n", "i", "x", ",", " ", "A", "Z" >>,
       << "R", "e", "n", "o", ",", " ", "N", "V" >>,
       << "M", "i", "n", "n", "e", "a", "p", "o", "l", "i", "s", ",", " ", "M", "N" >>,
       << "R", "o", "b", "b", "i", "n", "s", "v", "i", "l", "l", "e", ",", " ", "N", "J" >>,
       << "S", "e", "a", "t", "t", "l", "e", ",", " ", "W", "A" >> >>

EmptyTable == [kind |-> "empty", message |-> "", columns |-> <<>>, rows |-> <<>>]

\* the call raised instead of returning a table
RaisedTable == [kind |-> "raised", message |-> "", columns |-> <<>>, rows |-> <<>>]

MessageTable(text) == [kind |-> "message", message |-> text, columns |-> <<>>, rows |-> <<>>]

\* the decimal digits of a natural number
RECURSIVE NatStr(_)
NatStr(n) == IF n < 10 THEN <<Digits[n + 1]>> ELSE NatStr(n \div 10) \o <<Digits[(n % 10) + 1]>>

\* f"{x:.2f}" of a non-negative amount held in hundredths
Fmt2f(h) == NatStr(h \div 100) \o <<".">> \o <<Digits[((h % 100) \div 10) + 1], Digits[(h % 10) + 1]>>

\* size_order of _size_sort_key
size_order ==
    << << <<"X", "S">>, 1 >>, << <<"S">>, 2 >>, << <<"M">>, 3 >>, << <<"L">>, 4 >>,
       << <<"X", "L">>, 5 >>, << <<"L", "T">>, 6 >>, << <<"X", "L", "T">>, 7 >>,
       << <<"2", "X", "L", "T">>, 8 >>, << <<"3", "X", "L", "T">>, 9 >>,
       << <<"4", "X", "L", "T">>, 10 >> >>

\* base_prices of get_size_price, in hundredths
base_prices ==
    << << <<"S">>, 3726 >>, << <<"M">>, 3726 >>, << <<"L">>, 3726 >>,
       << <<"X", "L">>, 3726 >>, << <<"L", "T">>, 3726 >>, << <<"X", "L", "T">>, 3726 >>,
       << <<"2", "X", "L", "T">>, 3826 >>, << <<"3", "X", "L", "T">>, 4026 >>,
       << <<"4", "X", "L", "T">>, 4126 >> >>

\* _size_sort_key: Raised on a size that strips to nothing (size[0] of "")
size_sort_key(size) ==
    LET sz == Strip(Upper(size))
    IN  IF sz = <<>> THEN Raised
        ELSE IF IsDigit(sz[1])
        THEN [raised |-> FALSE, num |-> DigitVal(sz[1]) + 10, name |-> Tail(sz)]
        ELSE [raised |-> FALSE,
              num |-> IF DictHas(size_order, sz) THEN DictGet(size_order, sz) ELSE 99,
              name |-> sz]

\* k1 <= k2 for two keys, as Python compares tuples
KeyLeq(k1, k2) ==
    \/ k1.num < k2.num
    \/ k1.num = k2.num /\ ~StrLess(k2.name, k1.name)

\* f"{v:.2f}": the text of a number, ValueError or TypeError for a str or None
PriceText(v) ==
    CASE v.t \in {"int", "bool"} -> [raised |-> FALSE, s |-> Fmt2f(100 * v.n)]
      [] v.t = "float" -> [raised |-> FALSE, s |-> Fmt2f(v.n)]
      [] v.t = "nan" -> [raised |-> FALSE, s |-> <<"n", "a", "n">>]
      [] OTHER -> [raised |-> TRUE, s |-> <<>>]

\* base_prices.get(size.upper(), 37.26), in hundredths
BasePrice(size) ==
    IF DictHas(base_prices, Upper(size)) THEN DictGet(base_prices, Upper(size)) ELSE 3726

\* get_size_price with pricing_data a dict of JSON values (None is <<>>)
get_size_price(size, pricing_data) ==
    IF pricing_data # <<>> /\ DictHas(pricing_data, size)
    THEN PriceText(DictGet(pricing_data, size))
    ELSE [raised |-> FALSE, s |-> Fmt2f(BasePrice(size))]

\* the label a row is filed under: its stripped name, or "Warehouse {id}"
WarehouseLabel(row) ==
    IF Strip(row.warehouse) # <<>> THEN Strip(row.warehouse)
    ELSE WarehousePrefix \o row.warehouseId

\* the rows of every style taken as one product
ProductRowsOfAllStyles(inventory_rows) == inventory_rows

\* products[style] of the first style: the rows it is built from
ProductRows(inventory_rows) ==
    SelectSeq(inventory_rows, LAMBDA r : r.style = inventory_rows[1].style)

\* the sizes without the "if size" guard
ProductSizesWithEmpty(rows) == {Upper(rows[i].size) : i \in 1..Len(rows)}

\* product_data['sizes']
ProductSizes(rows) ==
    {Upper(rows[i].size) : i \in {j \in 1..Len(rows) : rows[j].size # <<>>}}

\* the keys of product_data['warehouses'], in insertion order
RECURSIVE PresentWarehouses(_)
PresentWarehouses(rows) ==
    IF rows = <<>> THEN <<>>
    ELSE LET before == PresentWarehouses(SubSeq(rows, 1, Len(rows) - 1))
             name == WarehouseLabel(rows[Len(rows)])
         IN  IF \E i \in 1..Len(before) : before[i] = name THEN before
             ELSE Append(before, name)

\* the quantities of the rows of one warehouse and size added up
RECURSIVE StoredQtySummed(_, _, _)
StoredQtySummed(rows, warehouse, size) ==
    IF rows = <<>> THEN 0
    ELSE (IF WarehouseLabel(Head(rows)) = warehouse /\ Upper(Head(rows).size) = size
          THEN Head(rows).qty ELSE 0)
         + StoredQtySummed(Tail(rows), warehouse, size)

\* product_data['warehouses'][warehouse].get(size, 0): the last row filed
\* under that warehouse and size wins
StoredQty(rows, warehouse, size) ==
    LET hits == {i \in 1..Len(rows) :
                    WarehouseLabel(rows[i]) = warehouse /\ Upper(rows[i].size) = size}
    IN  IF hits = {} THEN 0
        ELSE rows[CHOOSE i \in hits : \A j \in hits : j <= i].qty

\* the sequences that list every element of a set once
RECURSIVE Orderings(_)
Orderings(S) ==
    IF S = {} THEN {<<>>}
    ELSE UNION {{<<x>> \o p : p \in Orderings(S \ {x})} : x \in S}

\* sorted(list(sizes), key=_size_sort_key): the iteration order of a set is
\* not fixed and the sort is stable, so sizes with equal keys come in any order
SortedSizes(sizes) ==
    {p \in Orderings(sizes) :
        \A i \in 1..(Len(p) - 1) : KeyLeq(size_sort_key(p[i]), size_sort_key(p[i + 1]))}

\* sorted() of a sequence of distinct strings
RECURSIVE SortStrings(_)
SortStrings(names) ==
    IF names = <<>> THEN <<>>
    ELSE LET all == {names[i] : i \in 1..Len(names)}
             least == CHOOSE x \in all : \A y \in all : y = x \/ StrLess(x, y)
         IN  <<least>> \o SortStrings(SelectSeq(names, LAMBDA y : y # least))

InKnownOrder(w) == \E i \in 1..Len(known_order) : known_order[i] = w

\* warehouse_order with the warehouses outside known_order left as first seen
WarehouseOrderAsSeen(present) ==
    LET has(w) == \E i \in 1..Len(present) : present[i] = w
    IN  SelectSeq(known_order, LAMBDA w : has(w))
        \o SelectSeq(present, LAMBDA w : ~InKnownOrder(w))

\* warehouse_order
WarehouseOrder(present) ==
    LET has(w) == \E i \in 1..Len(present) : present[i] = w
    IN  SelectSeq(known_order, LAMBDA w : has(w))
        \o SortStrings(SelectSeq(present, LAMBDA w : ~InKnownOrder(w)))

\* case_size_value: products[style]['case_size'] is set to None when the
\* product is created, so .get('case_size', 12) finds the key and returns None
CaseSizeValue == JNull

\* a total that is assigned, not accumulated: the last warehouse's quantity
SumSeqLastOnly(q) == IF q = <<>> THEN 0 ELSE q[Len(q)]

RECURSIVE SumSeq(_)
SumSeq(q) == IF q = <<>> THEN 0 ELSE Head(q) + SumSeq(Tail(q))

\* pricing_row
PricingRow(all_sizes, pricing_data) ==
    [label |-> PriceLabel,
     cells |-> [k \in 1..Len(all_sizes) |->
                  JStr(get_size_price(all_sizes[k], pricing_data).s)]]

\* case_size_row
CaseSizeRow(all_sizes) ==
    [label |-> CaseSizeLabel, cells |-> [k \in 1..Len(all_sizes) |-> CaseSizeValue]]

\* warehouse_header
WarehouseHeader(all_sizes) ==
    [label |-> HeaderLabel, cells |-> [k \in 1..Len(all_sizes) |-> JStr(all_sizes[k])]]

\* the warehouse rows without the warehouses that have no stock in any size
WarehouseRowsWithStock(rows, all_sizes) ==
    LET order == WarehouseOrder(PresentWarehouses(rows))
        all == [w \in 1..Len(order) |->
                   [label |-> order[w],
                    cells |-> [k \in 1..Len(all_sizes) |->
                                 JInt(StoredQty(rows, order[w], all_sizes[k]))]]]
    IN  SelectSeq(all, LAMBDA r : \E k \in 1..Len(all_sizes) : r.cells[k].n > 0)

\* the warehouse rows, one per warehouse of warehouse_order
WarehouseRows(rows, all_sizes) ==
    LET order == WarehouseOrder(PresentWarehouses(rows))
    IN  [w \in 1..Len(order) |->
            [label |-> order[w],
             cells |-> [k \in 1..Len(all_sizes) |->
                          JInt(StoredQty(rows, order[w], all_sizes[k]))]]]

\* total_row: total_inventory[size] after the loop over the warehouses
TotalRow(rows, all_sizes) ==
    LET order == WarehouseOrder(PresentWarehouses(rows))
    IN  [label |-> TotalLabel,
         cells |-> [k \in 1..Len(all_sizes) |->
                      JInt(SumSeq([w \in 1..Len(order) |->
                                      StoredQty(rows, order[w], all_sizes[k])]))]]

\* the Total Inventory row appended before the warehouse rows
TableDataTotalFirst(rows, all_sizes, pricing_data) ==
    << PricingRow(all_sizes, pricing_data), CaseSizeRow(all_sizes),
       WarehouseHeader(all_sizes), TotalRow(rows, all_sizes) >>
    \o WarehouseRows(rows, all_sizes)

\* table_data: the rows of the matrix, in the order they are appended
TableData(rows, all_sizes, pricing_data) ==
    << PricingRow(all_sizes, pricing_data), CaseSizeRow(all_sizes),
       WarehouseHeader(all_sizes) >>
    \o WarehouseRows(rows, all_sizes)
    \o << TotalRow(rows, all_sizes) >>

\* the sort of the sizes raises when one of them strips to nothing
SortRaises(sizes) == \E size \in sizes : size_sort_key(size).raised

\* the loop of lines 66-68 raises when get_size_price does for a size
PriceRaises(sizes, pricing_data) ==
    \E size \in sizes : get_size_price(size, pricing_data).raised

\* format_inventory_table: the tables it can return, or Raised
format_inventory_table(inventory_rows, pricing_data) ==
    IF inventory_rows = <<>> THEN {EmptyTable}
    ELSE LET rows == ProductRows(inventory_rows)
             sizes == ProductSizes(rows)
         IN  IF SortRaises(sizes) THEN {RaisedTable}
             ELSE IF sizes = {} THEN {MessageTable("No size data available")}
             ELSE IF PriceRaises(sizes, pricing_data) THEN {RaisedTable}
             ELSE {[kind |-> "grid", message |-> "", columns |-> all_sizes,
                    rows |-> TableData(rows, all_sizes, pricing_data)] :
                      all_sizes \in SortedSizes(sizes)}

\* the table of format_inventory_table passed on as it is
DisplayTableAsIs(df) == df

\* create_inventory_display_table, given what format_inventory_table returned
create_inventory_display_table(df) ==
    IF df.kind = "raised" THEN RaisedTable
    ELSE IF df.kind = "empty" THEN MessageTable("No inventory data available")
    ELSE df

(***************************************************************************)
(* fetch_inventory_json (app/webjson.py).                                  *)
(*                                                                         *)
(* What requests.get does is an outcome [kind, status, ctype, text, doc]:  *)
(* kind "response" is a response that arrived, kinds "ConnectionError" and *)
(* "Timeout" are the exceptions requests.get raises.  doc is what          *)
(* resp.json() decodes, with doc.t = "none" for a body that is not JSON.   *)
(***************************************************************************)
\* resp.text[:300]
SnippetLen == 300

NoProduct ==
    [baseProduct |-> JNull, code |-> JNull, name |-> JNull,
     variantOptions |-> [isNull |-> FALSE, items |-> <<>>]]

NotJson == [t |-> "none", product |-> NoProduct, warehouses |-> <<>>]

NoResponse == [kind |-> "unset", status |-> 0, ctype |-> "", text |-> <<>>, doc |-> NotJson]

NoMessage == [prefix |-> "", urls |-> <<>>, status |-> 0, ctype |-> "", snippet |-> <<>>]

\* the function raised to its caller
RaisedEnvelope == [raised |-> TRUE, error |-> FALSE, rows |-> <<>>, message |-> NoMessage]

\* {"rows": rows}
RowsEnvelope(rows) == [raised |-> FALSE, error |-> FALSE, rows |-> rows, message |-> NoMessage]

\* the URL of a slug: the slug between the two constant parts
Url(s) == <<"https://www.sanmar.com/p/">> \o s \o <<"/checkInventoryJson?pantWaistSize=">>

\* base: the slug up to its first underscore
Base(slug) == IF Contains(slug, "_") THEN SplitHead(slug, "_") ELSE slug

\* the retry decided by the underscore alone
ShouldRetryOnUnderscore(slug) == Contains(slug, "_")

\* if base and base != slug
ShouldRetry(slug) == Base(slug) # <<>> /\ Base(slug) # slug

\* resp.raise_for_status() raises on a 4xx or 5xx status
RaisesForStatus(r) == r.status >= 400 /\ r.status < 600

\* the slug's base style handed to the first parse
FirstStyleIsBase(slug) == Base(slug)

\* the style the rows of the first attempt are parsed with
FirstStyle(slug) == slug

\* the style the rows of the retry are parsed with
RetryStyle(slug) == Base(slug)

\* the body of a try block: raise_for_status, json, parse_inventory_json
TryParse(r, style) ==
    IF RaisesForStatus(r) \/ r.doc.t = "none" THEN Raised
    ELSE parse_inventory_json(r.doc, style)

\* the error always built from the first response
LastResponseIsFirst(r, r2) == r

\* the response the error is built from after the retry: resp2 when it was
\* assigned, else the first response (locals().get("resp2", resp))
LastResponse(r, r2) == IF r2.kind = "unset" THEN r ELSE r2

\* snippet
Snippet(r) == Replace(Prefix(r.text, SnippetLen), "\n", " ")

\* the structured error
ErrorEnvelope(attempted, r) ==
    [raised |-> FALSE, error |-> TRUE, rows |-> <<>>,
     message |-> [prefix |-> "Non-JSON response. Tried: ", urls |-> attempted,
                  status |-> r.status, ctype |-> r.ctype, snippet |-> Snippet(r)]]

(***************************************************************************)
(* The inputs: slugs, response bodies, payloads, row lists.                *)
(***************************************************************************)
\* every caller passes a slug that is not empty
Slugs == SeqsUpTo({"A", "_"}, MaxSlugLen) \ {<<>>}

\* a body of n characters with a line break in second place
TextOf(n) == [i \in 1..n |-> IF i = 2 THEN "\n" ELSE "x"]

TextLens == {0} \cup ((SnippetLen - 1)..(SnippetLen + MaxOver))

Dallas == << "D", "a", "l", "l", "a", "s", ",", " ", "T", "X" >>
Reno == << "R", "e", "n", "o", ",", " ", "N", "V" >>

\* a document whose top level is a list
ListDoc == [t |-> "list", product |-> NoProduct, warehouses |-> <<>>]

\* {"product": {"variantOptions": null}}
NullOptionsDoc ==
    [t |-> "obj",
     product |-> [NoProduct EXCEPT !.variantOptions = [isNull |-> TRUE, items |-> <<>>]],
     warehouses |-> <<>>]

Variant(size, price_map, stock, available) ==
    [qualifiers |-> << [qualifier |-> "color", value |-> JStr(<<"B">>)],
                       [qualifier |-> "size", value |-> size] >>,
     priceDataMap |-> price_map,
     stockLevelsMap |-> stock,
     availableStockMap |-> available]

Doc(base, opts) ==
    [t |-> "obj",
     product |-> [baseProduct |-> base, code |-> JStr(<<"A", "_", "B">>),
                  name |-> JStr(<<"T", "e", "e">>),
                  variantOptions |-> [isNull |-> FALSE, items |-> opts]],
     warehouses |-> << [code |-> JStr(<<"1">>), shortName |-> JStr(Dallas), name |-> JNull],
                       [code |-> JStr(<<"2">>), shortName |-> JNull, name |-> JStr(Reno)] >>]

\* one variant with a number, a non-number and a negative number in stock
StockDoc ==
    Doc(JStr(<<"A">>),
        << Variant(JStr(<<"M">>), << <<"3", JStr(<<"9", ".", "5">>)>> >>,
                   << << <<"1">>, JInt(5) >>, << <<"2">>, JStr(<<"N", "/", "A">>) >>,
                      << <<"3">>, JInt(-3) >> >>, <<>>) >>)

\* the documents the endpoint answers with
FetchDocs == {ListDoc, NullOptionsDoc, Doc(JNull, <<>>), StockDoc}

\* the text of a JSON body is not modelled beyond its brackets
DocText(doc) == IF doc.t = "list" THEN <<"[", "]">> ELSE <<"{", "}">>

Bodies ==
    {[text |-> TextOf(n), doc |-> NotJson] : n \in TextLens}
    \cup {[text |-> DocText(d), doc |-> d] : d \in FetchDocs}

Responses ==
    {[kind |-> "response", status |-> st, ctype |-> ct, text |-> b.text, doc |-> b.doc] :
        st \in {200, 404}, ct \in {"application/json", "text/html"}, b \in Bodies}

Failures ==
    {[NoResponse EXCEPT !.kind = k] : k \in {"ConnectionError", "Timeout"}}

Outcomes == Responses \cup Failures

\* the quantities a stock map of a generated payload holds
QtyValues ==
    {JInt(5), JInt(-3), JStr(<<" ", "7">>), JStr(<<"N", "/", "A">>), JNull, JFloat(250)}

WhseIds == {NatStr(i) : i \in 1..MaxStock}

\* the stock maps of at most MaxStock entries, their keys distinct
StockMaps ==
    {m \in UNION {[1..n -> WhseIds \X QtyValues] : n \in 0..MaxStock} :
        \A i, j \in 1..Len(m) : i # j => m[i][1] # m[j][1]}

\* a second variant beside the generated one: none, one whose only stock is in
\* availableStockMap, one whose stockLevelsMap cannot be coerced and hides an
\* availableStockMap
Siblings ==
    { <<>>,
      << Variant(JStr(<<"L">>), <<>>, <<>>, << << <<"2">>, JStr(<<"4">>) >> >>) >>,
      << Variant(JNull, <<>>, << << <<"1">>, JNull >> >>,
                 << << <<"2">>, JStr(<<"4">>) >> >>) >> }

\* the captured payloads the parser is run on
GenPayloads ==
    {Doc(JStr(<<"A">>), <<Variant(JStr(<<"M">>), <<>>, m, <<>>)>> \o sib) :
        m \in StockMaps, sib \in Siblings}
    \cup {Doc(JStr(<<"A">>), sib \o <<Variant(JStr(<<"M">>), <<>>, m, <<>>)>>) :
        m \in StockMaps, sib \in Siblings}

ParseSlugs == {<<"A">>, <<"A", "_", "B">>}

\* the Canonical Rows a backend can hand to the matrix builder
RowUniverse ==
    {[style |-> st, partId |-> <<>>, color |-> <<>>, size |-> sz,
      description |-> <<>>, warehouseId |-> w[1], warehouse |-> w[2], qty |-> q,
      totalAvailable |-> JNull, price |-> JNull] :
        st \in {<<"A">>, <<"B">>},
        sz \in {<<"M">>, <<"s">>, <<>>},
        w \in {<< <<"1">>, Dallas >>, << <<"2">>, Reno >>, << <<"3">>, <<>> >>},
        q \in {0, 3, 5}}

RowLists == UNION {[1..n -> RowUniverse] : n \in 0..MaxRows}

\* the warehouses of the ordering specification: id, name, quantity per size
Acme == << "A", "c", "m", "e" >>
OrderWarehouses ==
    { << <<"1">>, Dallas, 5 >>, << <<"2">>, Reno, 3 >>,
      << <<"7">>, Acme, 1 >>, << <<"3">>, <<>>, 2 >> }

\* the sizes of the ordering specification: sizes of the lookup table, sizes
\* with a leading digit, sizes in no table, and sizes padded with a space
OrderSizes ==
    << <<"S">>, <<"M">>, <<"X", "L">>, <<"2", "X", "L", "T">>, <<"2", "X", "L">>,
       <<"3", "X", "L">>, <<"X", "X", "L">>, <<"M", " ">>, <<" ", "Z", "Z">> >>

\* the sequences of 1..n distinct elements of S
DistinctSeqs(S, n) ==
    {q \in UNION {[1..m -> S] : m \in 1..n} :
        \A i, j \in 1..Len(q) : i # j => q[i] # q[j]}

\* the sub-sequences of 1..n elements of a sequence
SubSeqs(q, n) ==
    LET pick(I) == LET nth(k) == CHOOSE i \in I : Cardinality({j \in I : j <= i}) = k
                   IN  [k \in 1..Cardinality(I) |-> q[nth(k)]]
    IN  {pick(I) : I \in {J \in SUBSET (1..Len(q)) : Cardinality(J) \in 1..n}}

\* the rows of one style with a row for every warehouse of ws and size of ss
RowsOf(ws, ss) ==
    [k \in 1..(Len(ws) * Len(ss)) |->
        LET w == ws[((k - 1) \div Len(ss)) + 1]
            sz == ss[((k - 1) % Len(ss)) + 1]
        IN  [style |-> <<"A">>, partId |-> <<>>, color |-> <<>>, size |-> sz,
             description |-> <<>>, warehouseId |-> w[1], warehouse |-> w[2],
             qty |-> w[3], totalAvailable |-> JNull, price |-> JNull]]

OrderRowLists ==
    {RowsOf(ws, ss) : ws \in DistinctSeqs(OrderWarehouses, MaxWarehouses),
                      ss \in SubSeqs(OrderSizes, MaxSizes)}

\* the formattedValue of a price entry: numbers as text, text that is no
\* number, the empty text, null
PriceValues ==
    {JStr(<<"9", ".", "5">>), JStr(<<"1", "2">>), JStr(<<"N", "/", "A">>), JStr(<<>>), JNull}

PriceKeys == {"3", "UPG", "1"}

\* the price maps of at most MaxPrices entries, their keys distinct
PriceMaps ==
    {m \in UNION {[1..n -> PriceKeys \X PriceValues] : n \in 0..MaxPrices} :
        \A i, j \in 1..Len(m) : i # j => m[i][1] # m[j][1]}

\* the warehouses lists: the two named warehouses, an entry for code "1"
\* without shortName and name, and no entry at all
WarehouseLists ==
    { << [code |-> JStr(<<"1">>), shortName |-> JStr(Dallas), name |-> JNull],
         [code |-> JStr(<<"2">>), shortName |-> JNull, name |-> JStr(Reno)] >>,
      << [code |-> JStr(<<"1">>), shortName |-> JNull, name |-> JNull] >>,
      <<>> }

\* a payload of one variant of size M with stock in the warehouses "1" and "3"
FieldDoc(price_map, ws) ==
    [Doc(JStr(<<"A">>),
         << Variant(JStr(<<"M">>), price_map,
                    << << <<"1">>, JInt(5) >>, << <<"3">>, JInt(2) >> >>, <<>>) >>)
     EXCEPT !.warehouses = ws]

FieldPayloads == {FieldDoc(m, ws) : m \in PriceMaps, ws \in WarehouseLists}

\* the prices a caller can put in pricing_data: numbers, text, None
SuppliedPrices ==
    {JFloat(1999), JInt(20), JStr(<<"1", "9", ".", "9", "9">>), JStr(<<"N", "/", "A">>), JNull}

PricedSizes == << <<"M">>, <<"2", "X", "L", "T">>, <<"X", "X", "L">> >>

\* the pricing_data dicts of at most MaxPrices sizes
PricingDicts ==
    {m \in UNION {[1..n -> {PricedSizes[i] : i \in 1..Len(PricedSizes)} \X SuppliedPrices] :
                     n \in 0..MaxPrices} :
        \A i, j \in 1..Len(m) : i # j => m[i][1] # m[j][1]}

PricedRowLists ==
    {RowsOf(<< << <<"1">>, Dallas, 5 >> >>, ss) : ss \in SubSeqs(PricedSizes, MaxSizes)}

\* main, lines 114-130: the credentials the backend needs and the settings
\* lack
MissingCredentials(be, st) ==
    IF be = "promostandards"
    THEN {c \in {"username", "password"} : ~st[c]}
    ELSE IF be = "standard"
         THEN {c \in {"customer", "username", "password"} : ~st[c]}
         ELSE {}

\* the call the loop of the CLI makes for a style
CliVia(be) == IF be = "webjson" THEN "webjson" ELSE "soap"

\* the call the loop of the selected products makes for a product, or none
SelectedVia(be, st, item) ==
    IF be = "webjson"
    THEN IF item.slug THEN "webjson" ELSE "skip"
    ELSE IF be = "promostandards"
         THEN IF item.slug /\ st.cookie THEN "webjson"
              ELSE IF item.styleNumber THEN "soap" ELSE "skip"
         ELSE IF item.styleNumber THEN "soap" ELSE "skip"

\* the call the loop of ALL results makes for a result, or none
AllVia(be, item) ==
    IF be = "webjson"
    THEN IF item.slug THEN "webjson" ELSE "skip"
    ELSE IF ~item.styleNumber THEN "skip"
         ELSE IF be = "promostandards" /\ item.slug THEN "webjson" ELSE "soap"

\* what a call on a product gives: an envelope with a row, an envelope with
\* error set and no row, an exception
CallOutcomes == {"rows", "error", "raises"}

CallEvent(i, via, outcome) == [kind |-> "call", item |-> i, via |-> via, outcome |-> outcome]

CheckEvent(missing) ==
    [kind |-> "check", item |-> 0, via |-> "none",
     outcome |-> IF missing = {} THEN "present" ELSE "missing"]

SleepEvent(i) == [kind |-> "sleep", item |-> i, via |-> "none", outcome |-> "none"]

\* the entry points that run a batch
Entries == {"cli", "manual", "selected", "all"}

\* style codes, as the CLI and the manual field take them
StyleItems ==
    {[key |-> <<"A">>, slug |-> TRUE, styleNumber |-> TRUE],
     [key |-> <<"B">>, slug |-> TRUE, styleNumber |-> TRUE]}

\* search results: with a slug and a styleNumber, with one of them only
SearchItems ==
    {[key |-> <<"A">>, slug |-> TRUE, styleNumber |-> TRUE],
     [key |-> <<"C">>, slug |-> TRUE, styleNumber |-> FALSE],
     [key |-> <<"D">>, slug |-> FALSE, styleNumber |-> TRUE]}

ItemLists(items) == UNION {[1..n -> items] : n \in 0..MaxItems}

\* the settings of the environment: which credentials are set, and whether
\* a cookie is
SettingsOf(cookies) ==
    [username : BOOLEAN, password : BOOLEAN, customer : BOOLEAN, cookie : cookies]

\* dict[key] = value: the key keeps its place when it is there already
DictSet(d, key, value) ==
    IF DictHas(d, key)
    THEN [i \in 1..Len(d) |-> IF d[i][1] = key THEN <<key, value>> ELSE d[i]]
    ELSE Append(d, <<key, value>>)

\* dict.update(other)
RECURSIVE DictUpdate(_, _)
DictUpdate(d, other) ==
    IF other = <<>> THEN d
    ELSE DictUpdate(DictSet(d, other[1][1], other[1][2]), Tail(other))

Accept == <<"A", "c", "c", "e", "p", "t">>
Referer == <<"R", "e", "f", "e", "r", "e", "r">>
Cookie == <<"C", "o", "o", "k", "i", "e">>
Authorization == <<"A", "u", "t", "h", "o", "r", "i", "z", "a", "t", "i", "o", "n">>

\* the mask of both sanitizers
Stars == "***"

\* DEFAULT_HEADERS, by one of its headers
DEFAULT_HEADERS == << <<Accept, "application/json">> >>

\* _build_headers_for_query: the defaults, the Referer of the query, the
\* Cookie of the environment when there is one, then the extra headers of
\* the environment, whatever their names
build_headers_for_query(cookie, extra_headers) ==
    LET withReferer == DictSet(DEFAULT_HEADERS, Referer, "search")
        withCookie == IF cookie # "" THEN DictSet(withReferer, Cookie, cookie)
                      ELSE withReferer
    IN  DictUpdate(withCookie, extra_headers)

\* _sanitize_headers_for_log: a copy with the values under the keys "Cookie"
\* and "Authorization" masked; an empty dict is returned as it is
sanitize_headers_for_log(headers) ==
    IF headers = <<>> THEN headers
    ELSE LET maskedCookie == IF DictHas(headers, Cookie)
                             THEN DictSet(headers, Cookie, Stars) ELSE headers
         IN  IF DictHas(maskedCookie, Authorization)
             THEN DictSet(maskedCookie, Authorization, Stars)
             ELSE maskedCookie

\* the elements whose contents _sanitize_xml_for_log replaces
MaskedTags == {"arg0", "arg1", "arg2", "shar:id", "shar:password", "id", "password"}

\* _sanitize_xml_for_log on the elements of a request: (.*?) matches the
\* contents of an element on one line, since . matches no line break
sanitize_xml_for_log(xml_text) ==
    IF xml_text = <<>> THEN xml_text
    ELSE [i \in 1..Len(xml_text) |->
            IF xml_text[i].tag \in MaskedTags /\ ~Contains(xml_text[i].text, "\n")
            THEN [tag |-> xml_text[i].tag, text |-> <<"*", "*", "*">>]
            ELSE xml_text[i]]

\* the Cookie field of the sidebar
CookieValues == {"", "JSESSIONID=s3cr3t"}

\* the Extra headers (JSON) field of the sidebar: nothing, a harmless header,
\* credentials under the usual names and under lower-case names
ExtraHeaders ==
    { <<>>,
      << <<<<"D", "N", "T">>, "1">> >>,
      << <<Authorization, "Bearer t0k3n">> >>,
      << <<Cookie, "JSESSIONID=0th3r">> >>,
      << <<<<"c", "o", "o", "k", "i", "e">>, "JSESSIONID=0th3r">> >>,
      << <<<<"a", "u", "t", "h", "o", "r", "i", "z", "a", "t", "i", "o", "n">>, "Bearer t0k3n">>,
         <<<<"D", "N", "T">>, "1">> >> }

\* the elements of a SOAP request: credentials and the product asked for
XmlElements ==
    { [tag |-> "arg0", text |-> <<"4", "2">>],
      [tag |-> "arg1", text |-> <<"u">>],
      [tag |-> "arg2", text |-> <<"p", "w">>],
      [tag |-> "shar:id", text |-> <<"u">>],
      [tag |-> "shar:password", text |-> <<>>],
      [tag |-> "id", text |-> <<"u">>],
      [tag |-> "password", text |-> <<"p", "w">>],
      [tag |-> "productId", text |-> <<"K">>] }

\* the requests the client keeps for the log: none yet, or two elements
RequestXmls == {<<>>} \cup [1..2 -> XmlElements]

IsUpperLetter(c) == Ord(c) >= Ord("A") /\ Ord(c) <= Ord("Z")

\* STYLE_RE on a token of letters and digits: 1 to 5 capital letters, then
\* 2 to 5 digits, from one end of the token to the other
IsStyleCode(tok) ==
    \E n \in 1..5 :
        /\ Len(tok) - n \in 2..5
        /\ \A i \in 1..n : IsUpperLetter(tok[i])
        /\ \A i \in (n + 1)..Len(tok) : IsDigit(tok[i])

\* parse_styles_from_text: sorted(set(...)) of the matches of STYLE_RE in the
\* upper-cased text
parse_styles_from_text(tokens) ==
    SortStrings(SelectSeq([i \in 1..Len(tokens) |-> Upper(tokens[i])], IsStyleCode))

\* main, lines 86 and 96: the tokens of the text that are not empty
SplitStyles(tokens) == SelectSeq(tokens, LAMBDA t : t # <<>>)

\* dedupe_preserve_order
RECURSIVE dedupe_preserve_order(_, _)
dedupe_preserve_order(items, normalize) ==
    IF items = <<>> THEN <<>>
    ELSE LET before == dedupe_preserve_order(SubSeq(items, 1, Len(items) - 1), normalize)
             stripped == Strip(items[Len(items)])
             x == IF normalize THEN Upper(stripped) ELSE stripped
         IN  IF x = <<>> \/ \E i \in 1..Len(before) : before[i] = x
             THEN before
             ELSE Append(before, x)

\* the styles main hands to its loop for a --styles text and a backend
DiscoveredStyles(tokens, be) ==
    dedupe_preserve_order(IF be = "webjson" THEN SplitStyles(tokens)
                          ELSE parse_styles_from_text(tokens),
                          be # "webjson")

Backends == {"promostandards", "standard", "webjson"}

\* the tokens of a --styles text: style codes in either case, a token that
\* is no style code, the empty token a leading comma leaves
StyleTokens == {<<"B", "1", "2">>, <<"A", "3", "4">>, <<"a", "3", "4">>, <<"Z">>, <<>>}

TokenLists == UNION {[1..n -> StyleTokens] : n \in 0..MaxTokens}

\* cols of rows_to_dataframe
cols ==
    << "style", "partId", "color", "size", "description", "warehouseId", "warehouse",
       "qty", "totalAvailable", "price" >>

\* the cell of a DataFrame built from dicts: the row's value, NaN when only
\* other rows have the key, None when the column was added by "df[c] = None"
FrameCell(rows, i, c) ==
    IF DictHas(rows[i], c) THEN DictGet(rows[i], c)
    ELSE IF \E j \in 1..Len(rows) : DictHas(rows[j], c) THEN JNaN
    ELSE JNull

\* pd.DataFrame(rows) with the missing columns added and no column selected
FrameKeepingKeys(rows) ==
    LET extra == IF \E j \in 1..Len(rows) : DictHas(rows[j], "styleNumber")
                 THEN <<"styleNumber">> ELSE <<>>
    IN  [columns |-> cols \o extra,
         data |-> [i \in 1..Len(rows) |->
                     [k \in 1..Len(cols \o extra) |-> FrameCell(rows, i, (cols \o extra)[k])]]]

\* rows_to_dataframe: df[cols] of pd.DataFrame(rows) with the missing columns added
rows_to_dataframe(rows) ==
    [columns |-> cols,
     data |-> [i \in 1..Len(rows) |-> [k \in 1..Len(cols) |-> FrameCell(rows, i, cols[k])]]]

\* a row as parse_inventory_json emits it, as a dict
FullRow(style, price) ==
    << <<"style", JStr(style)>>, <<"partId", JStr(<<>>)>>, <<"color", JStr(<<>>)>>,
       <<"size", JStr(<<"M">>)>>, <<"description", JStr(<<"T", "e", "e">>)>>,
       <<"warehouseId", JStr(<<"1">>)>>, <<"warehouse", JStr(Dallas)>>,
       <<"qty", JInt(5)>>, <<"totalAvailable", JNull>>, <<"price", price>> >>

\* a row the dashboard annotated: r2["styleNumber"] = group_style
AnnotatedRow(style) == FullRow(style, JNull) \o << <<"styleNumber", JStr(style)>> >>

\* a row that supplies a style, a warehouse id and a quantity only
PartialRow(style) ==
    << <<"style", JStr(style)>>, <<"warehouseId", JStr(<<"2">>)>>, <<"qty", JInt(3)>> >>

ExportRows ==
    {FullRow(<<"A">>, JNull), FullRow(<<"A">>, JFloat(950)), FullRow(<<"B">>, JNull),
     AnnotatedRow(<<"A">>), AnnotatedRow(<<"B">>), PartialRow(<<"A">>), PartialRow(<<"B">>)}

ExportRowLists == UNION {[1..n -> ExportRows] : n \in 0..MaxRows}

\* the value of a variant's size qualifier: whitespace only, empty, lower
\* case, in no lookup table, null
SizeValues ==
    {JStr(<<" ">>), JStr(<<>>), JStr(<<"m">>), JStr(<<"X", "X", "L">>), JNull}

\* the payloads of two variants, the second with stock in a warehouse that
\* the warehouses list does not name
SizePayloads ==
    {[Doc(JStr(<<"A">>),
          << Variant(s1, <<>>, << << <<"1">>, JInt(5) >> >>, <<>>),
             Variant(s2, <<>>, << << <<"3">>, JInt(2) >> >>, <<>>) >>)
      EXCEPT !.warehouses = ws] :
        s1 \in SizeValues, s2 \in SizeValues, ws \in WarehouseLists}

\* the price field of a parsed row: None or a float, in hundredths
RowPrices == {JNull, JFloat(950), JFloat(1200)}

\* the rows of PricedRowLists with a price in every row
RowListsWithPrices ==
    UNION {{[i \in 1..Len(rows) |-> [rows[i] EXCEPT !.price = p[i]]] :
               p \in [1..Len(rows) -> RowPrices]} :
           rows \in PricedRowLists}

(***************************************************************************)
(* State.                                                                  *)
(***************************************************************************)
VARIABLES
    slug,            \* the slug the caller passed
    pc,              \* where the call stands
    attempted_urls,  \* attempted_urls of fetch_inventory_json
    net,             \* the requests sent so far, each with its outcome
    resp,            \* resp of fetch_inventory_json
    resp2,           \* resp2 of fetch_inventory_json
    result,          \* what fetch_inventory_json returned
    payload,         \* the JSON document of --json-file
    offline,         \* what the --json-file branch of main got from the parser
    inventory_rows,  \* the rows handed to create_inventory_display_table
    table,           \* what format_inventory_table returned
    display,         \* what create_inventory_display_table returned
    pricing_data,    \* the pricing_data handed to format_inventory_table
    entry,           \* the batch entry point that runs: main or a dashboard handler
    backend,         \* settings.backend, the dashboard's backend
    settings,        \* the credentials and the cookie the environment holds
    raw_styles,      \* the style tokens of the caller's input
    styles,          \* the identifiers handed to the fetch loop
    idx,             \* the position of the fetch loop
    all_rows,        \* all_rows of main, rows_manual, rows2, rows_all
    events,          \* the checks, backend calls and delays so far, in order
    exit_code,       \* what main returned
    exported,        \* what rows_to_dataframe returned
    request,         \* the last request of a backend call: its XML and headers
    logged           \* what the dashboard put in a debug display

vars ==
    << slug, pc, attempted_urls, net, resp, resp2, result, payload, offline,
       inventory_rows, table, display, pricing_data,
       entry, backend, settings, raw_styles, styles, idx, all_rows, events,
       exit_code, exported, request, logged >>

\* the variables of the batch entry points, the export and the debug display
batchVars ==
    << entry, backend, settings, raw_styles, styles, idx, all_rows, events,
       exit_code, exported, request, logged >>

\* the variables of one fetch, parse and display, pc apart
fetchVars ==
    << slug, attempted_urls, net, resp, resp2, result, payload, offline,
       inventory_rows, table, display, pricing_data >>

NoSettings == [username |-> FALSE, password |-> FALSE, customer |-> FALSE, cookie |-> FALSE]

NoFrame == [columns |-> <<>>, data |-> <<>>]

NoRequest == [xml |-> <<>>, headers |-> <<>>]

NotReturned == -1

NoResult == [raised |-> FALSE, error |-> FALSE, rows |-> <<>>, message |-> NoMessage]

NotRun == [ran |-> FALSE, raised |-> FALSE, rows |-> <<>>]

NoTable == [kind |-> "none", message |-> "", columns |-> <<>>, rows |-> <<>>]

\* no batch, no export and no debug display
BlankBatch ==
    /\ entry = "none"
    /\ backend = "webjson"
    /\ settings = NoSettings
    /\ raw_styles = <<>>
    /\ styles = <<>>
    /\ idx = 1
    /\ all_rows = <<>>
    /\ events = <<>>
    /\ exit_code = NotReturned
    /\ exported = NoFrame
    /\ request = NoRequest
    /\ logged = NoRequest

\* no fetch and no display
BlankFetch ==
    /\ attempted_urls = <<>>
    /\ net = <<>>
    /\ resp = NoResponse
    /\ resp2 = NoResponse
    /\ result = NoResult
    /\ offline = NotRun
    /\ table = NoTable
    /\ display = NoTable
    /\ slug = <<>>
    /\ payload = NotJson
    /\ inventory_rows = <<>>
    /\ pricing_data = <<>>

Blank ==
    /\ attempted_urls = <<>>
    /\ net = <<>>
    /\ resp = NoResponse
    /\ resp2 = NoResponse
    /\ result = NoResult
    /\ offline = NotRun
    /\ table = NoTable
    /\ display = NoTable
    /\ pricing_data = <<>>
    /\ BlankBatch

(***************************************************************************)
(* fetch_inventory_json, one step per request.                             *)
(***************************************************************************)
Init ==
    /\ Blank
    /\ pc = "call"
    /\ slug \in Slugs
    /\ payload = NotJson
    /\ inventory_rows = <<>>

\* line 46: the first request, outside any try block
FirstRequest ==
    /\ pc = "call"
    /\ \E outcome \in Outcomes :
        /\ net' = Append(net, [url |-> Url(slug), outcome |-> outcome])
        /\ IF outcome.kind = "response"
           THEN /\ resp' = outcome
                /\ attempted_urls' = <<Url(slug)>>
                /\ pc' = "first"
                /\ result' = result
           ELSE /\ pc' = "raised"
                /\ result' = RaisedEnvelope
                /\ UNCHANGED <<resp, attempted_urls>>
    /\ UNCHANGED <<slug, resp2, payload, offline, inventory_rows, table, display,
                   pricing_data, batchVars>>

\* lines 48-57 and 67-76: the first try block and, when it raised, either the
\* decision to retry or the structured error
HandleFirst ==
    /\ pc = "first"
    /\ LET res == TryParse(resp, FirstStyle(slug))
       IN  IF ~res.raised
           THEN /\ result' = RowsEnvelope(res.rows)
                /\ pc' = "done"
                /\ attempted_urls' = attempted_urls
           ELSE IF ShouldRetry(slug)
           THEN /\ attempted_urls' = Append(attempted_urls, Url(Base(slug)))
                /\ pc' = "retry"
                /\ result' = result
           ELSE /\ result' = ErrorEnvelope(attempted_urls, resp)
                /\ pc' = "done"
                /\ attempted_urls' = attempted_urls
    /\ UNCHANGED <<slug, net, resp, resp2, payload, offline, inventory_rows, table,
                   display, pricing_data, batchVars>>

\* lines 58-76: the retry against the base style, inside its try block
RetryRequest ==
    /\ pc = "retry"
    /\ \E outcome \in Outcomes :
        /\ net' = Append(net, [url |-> Url(Base(slug)), outcome |-> outcome])
        /\ resp2' = IF outcome.kind = "response" THEN outcome ELSE resp2
        /\ LET res == IF outcome.kind = "response"
                      THEN TryParse(outcome, RetryStyle(slug))
                      ELSE Raised
           IN  IF ~res.raised
               THEN /\ result' = RowsEnvelope(res.rows)
                    /\ resp' = resp
               ELSE /\ resp' = LastResponse(resp, resp2')
                    /\ result' = ErrorEnvelope(attempted_urls, resp')
    /\ pc' = "done"
    /\ UNCHANGED <<slug, attempted_urls, payload, offline, inventory_rows, table,
                   display, pricing_data, batchVars>>

\* main, lines 148-153: the --json-file branch, parse_inventory_json(data, slug=style)
JsonFileResult(data, style) ==
    LET res == parse_inventory_json(data, style)
    IN  IF res.raised THEN [ran |-> TRUE, raised |-> TRUE, rows |-> <<>>]
        ELSE [ran |-> TRUE, raised |-> FALSE, rows |-> res.rows]

\* the --json-file run on the document the first request was answered with
JsonFileOfCapture ==
    /\ pc = "done"
    /\ ~offline.ran
    /\ net[1].outcome.doc.t # "none"
    /\ payload' = net[1].outcome.doc
    /\ offline' = JsonFileResult(payload', slug)
    /\ UNCHANGED <<slug, pc, attempted_urls, net, resp, resp2, result,
                   inventory_rows, table, display, pricing_data, batchVars>>

Next == FirstRequest \/ HandleFirst \/ RetryRequest \/ JsonFileOfCapture

Spec == Init /\ [][Next]_vars

(***************************************************************************)
(* The parser on captured payloads, and the matrix of the rows it emits.   *)
(***************************************************************************)
InitParse ==
    /\ Blank
    /\ pc = "file"
    /\ slug \in ParseSlugs
    /\ payload \in GenPayloads
    /\ inventory_rows = <<>>

\* the --json-file run on a captured payload
JsonFile ==
    /\ pc = "file"
    /\ offline' = JsonFileResult(payload, slug)
    /\ inventory_rows' = offline'.rows
    /\ pc' = "rows"
    /\ UNCHANGED <<slug, attempted_urls, net, resp, resp2, result, payload, table,
                   display, pricing_data, batchVars>>

\* the display built with the rows' price fields handed on as pricing_data
DisplayRowsWithRowPrices ==
    /\ pc = "rows"
    /\ \E df \in format_inventory_table(
                    inventory_rows,
                    SelectSeq([i \in 1..Len(inventory_rows) |->
                                  <<Upper(inventory_rows[i].size), inventory_rows[i].price>>],
                              LAMBDA e : e[2] # JNull)) :
        /\ table' = df
        /\ display' = create_inventory_display_table(df)
    /\ pc' = "shown"
    /\ UNCHANGED <<slug, attempted_urls, net, resp, resp2, result, payload, offline,
                   inventory_rows, pricing_data, batchVars>>

\* create_inventory_display_table(rows): the call of format_inventory_table
\* and what is made of the table it returns
DisplayRows ==
    /\ pc = "rows"
    /\ \E df \in format_inventory_table(inventory_rows, <<>>) :
        /\ table' = df
        /\ display' = create_inventory_display_table(df)
    /\ pc' = "shown"
    /\ UNCHANGED <<slug, attempted_urls, net, resp, resp2, result, payload, offline,
                   inventory_rows, pricing_data, batchVars>>

NextParse == JsonFile \/ DisplayRows

SpecParse == InitParse /\ [][NextParse]_vars

(***************************************************************************)
(* The matrix builder on the rows of any backend.                          *)
(***************************************************************************)
InitMatrix ==
    /\ Blank
    /\ pc = "rows"
    /\ slug = <<>>
    /\ payload = NotJson
    /\ inventory_rows \in RowLists

NextMatrix == DisplayRows

SpecMatrix == InitMatrix /\ [][NextMatrix]_vars

(***************************************************************************)
(* Properties of fetch_inventory_json, under Spec.                         *)
(***************************************************************************)
Finished == pc \in {"done", "raised"}

\* a style, an underscore and a color, as in "60397_InsBlue"
ColorSuffixed(s) ==
    Contains(s, "_") /\ SplitHead(s, "_") # <<>> /\ SplitTail(s, "_") # <<>>

\* the first attempt failed: the request raised, or its try block did
FirstFailed ==
    /\ Len(net) >= 1
    /\ \/ net[1].outcome.kind # "response"
       \/ TryParse(net[1].outcome, slug).raised

RequestedUrls == [i \in 1..Len(net) |-> net[i].url]

\* C1: fetch_inventory_json never raises to its caller: whatever each request
\* does, it returns {rows} or {rows: [], error: True, message: non-empty text}.
C1_NeverRaises ==
    /\ pc # "raised"
    /\ pc = "done" =>
         /\ ~result.raised
         /\ result.error => (result.rows = <<>> /\ result.message.prefix # "")

\* C2: for a color-suffixed slug whose first attempt fails, exactly one more
\* request is sent, to the base style, and never a third; when the retry fails
\* too, the message lists both URLs in the order they were tried.
C2_RetriesBaseOnce ==
    /\ Len(net) <= 2
    /\ (Finished /\ ColorSuffixed(slug) /\ FirstFailed) =>
         /\ Len(net) = 2
         /\ net[2].url = Url(SplitHead(slug, "_"))
         /\ result.error => result.message.urls = <<Url(slug), Url(SplitHead(slug, "_"))>>

\* C3: every row fetch_inventory_json returns carries the caller's slug as its
\* style, the rows of the base-style retry included.
C3_StyleIsSlug ==
    pc = "done" => \A i \in 1..Len(result.rows) : result.rows[i].style = slug

\* the snippet is the first SnippetLen characters of the text, line breaks
\* turned into spaces
IsSnippetOf(snippet, text) ==
    /\ Len(snippet) <= SnippetLen
    /\ Len(snippet) = (IF Len(text) < SnippetLen THEN Len(text) ELSE SnippetLen)
    /\ \A i \in 1..Len(snippet) :
          snippet[i] = (IF text[i] = "\n" THEN " " ELSE text[i])

\* the message reports the response r
Reports(message, r) ==
    /\ message.status = r.status
    /\ message.ctype = r.ctype
    /\ IsSnippetOf(message.snippet, r.text)

\* C4 as claimed: the error message lists every URL attempted and reports the
\* status, the Content-Type and a snippet of at most 300 characters of the
\* last attempt that was made.
C4_ReportsLastAttempt ==
    (pc = "done" /\ result.error) =>
        /\ result.message.urls = RequestedUrls
        /\ Reports(result.message, net[Len(net)].outcome)

\* the last request that was answered with a response
LastAnswered ==
    net[CHOOSE i \in 1..Len(net) :
            /\ net[i].outcome.kind = "response"
            /\ \A j \in (i + 1)..Len(net) : net[j].outcome.kind # "response"].outcome

\* C4, amended: the error message lists every URL attempted and reports the
\* status, the Content-Type and a snippet of at most 300 characters of the
\* last attempt that was answered with a response (the first attempt, when
\* the retry raised before any response arrived).
C4_ReportsLastResponse ==
    (pc = "done" /\ result.error) =>
        /\ result.message.urls = RequestedUrls
        /\ Reports(result.message, LastAnswered)

\* an error built from a retry that was answered with a long body and with
\* another status than the first attempt
C4_Witness ==
    /\ pc = "done"
    /\ result.error
    /\ Len(net) = 2
    /\ net[2].outcome.kind = "response"
    /\ net[2].outcome.status # net[1].outcome.status
    /\ Len(net[2].outcome.text) > SnippetLen
    /\ Len(result.message.snippet) = SnippetLen

\* the first request was answered with a status raise_for_status accepts
FirstAccepted == net[1].outcome.kind = "response" /\ ~RaisesForStatus(net[1].outcome)

\* C5 as claimed: for every payload and slug, the rows of the offline path are
\* the rows fetch_inventory_json returns when its first request is answered
\* with that payload in a 2xx response (a parse that raises adds no row in main).
C5_OfflineIsLive ==
    (pc = "done" /\ offline.ran /\ FirstAccepted) => result.rows = offline.rows

\* C5, amended: for every slug and every payload the parser accepts without
\* raising, the rows of the offline path are, in content and order, the rows
\* fetch_inventory_json returns when its first request is answered with that
\* payload in a 2xx response, and the offline run sends no request.
C5_OfflineIsLiveWhenParsed ==
    [][(~offline.ran /\ offline'.ran) =>
          /\ net' = net
          /\ (FirstAccepted' /\ ~offline'.raised) =>
                /\ ~result'.error
                /\ ~result'.raised
                /\ Len(net') = 1
                /\ result'.rows = offline'.rows]_vars

\* the offline run and the live call agree on rows of a color-suffixed slug
C5_Witness ==
    /\ offline.ran
    /\ ~offline.raised
    /\ FirstAccepted
    /\ ColorSuffixed(slug)
    /\ Len(offline.rows) >= 2
    /\ result.rows = offline.rows

(***************************************************************************)
(* Properties of parse_inventory_json, under SpecParse.                    *)
(***************************************************************************)
\* what Python's int() makes of the quantities of the generated payloads:
\* int(5), int(-3), int(" 7"), int(2.5) and int("4"); int("N/A") and
\* int(None) raise
Coerced ==
    { <<JInt(5), 5>>, <<JInt(-3), -3>>, <<JStr(<<" ", "7">>), 7>>, <<JFloat(250), 2>>,
      <<JStr(<<"4">>), 4>> }

Coercible(v) == \E c \in Coerced : c[1] = v

CoercedValue(v) == (CHOOSE c \in Coerced : c[1] = v)[2]

\* the entries of a stock map that can be coerced, as <<warehouseId, qty>>; the
\* stock map of a variant is the one the parser reads: stockLevelsMap, or
\* availableStockMap when stockLevelsMap is empty or missing
RECURSIVE CoercibleEntries(_)
CoercibleEntries(stock_map) ==
    IF stock_map = <<>> THEN <<>>
    ELSE (IF Coercible(Head(stock_map)[2])
          THEN << <<Head(stock_map)[1], CoercedValue(Head(stock_map)[2])>> >>
          ELSE <<>>)
         \o CoercibleEntries(Tail(stock_map))

\* over all variants, in order
RECURSIVE AllCoercibleEntries(_)
AllCoercibleEntries(opts) ==
    IF opts = <<>> THEN <<>>
    ELSE CoercibleEntries(IF Head(opts).stockLevelsMap # <<>>
                          THEN Head(opts).stockLevelsMap
                          ELSE Head(opts).availableStockMap)
         \o AllCoercibleEntries(Tail(opts))

\* C6: a stock entry whose quantity cannot be coerced to an integer produces
\* no row (not a row with qty 0) and stops nothing: every entry with a
\* coercible quantity, of the same and of every other variant, produces exactly
\* one row.
C6_SkipsOnlyNonCoercible ==
    offline.ran =>
        /\ ~offline.raised
        /\ [i \in 1..Len(offline.rows) |->
               <<offline.rows[i].warehouseId, offline.rows[i].qty>>]
           = AllCoercibleEntries(payload.product.variantOptions.items)

\* a variant whose first entry cannot be coerced and whose second can, with a
\* sibling variant that has a row of its own
C6_Witness ==
    /\ offline.ran
    /\ \E i \in 1..Len(payload.product.variantOptions.items) :
          LET m == payload.product.variantOptions.items[i].stockLevelsMap
          IN  Len(m) = 2 /\ ~Coercible(m[1][2]) /\ Coercible(m[2][2])
    /\ Len(offline.rows) = 2
    /\ offline.rows[1].size # offline.rows[2].size

\* the quantity cells of a grid: the warehouse rows and the Total Inventory row
QtyCells(t) ==
    {t.rows[i].cells[k] : i \in 4..Len(t.rows), k \in 1..Len(t.columns)}

\* C7: for every payload, every qty of the rows the parser emits, and every
\* quantity cell of the warehouse rows and of the Total Inventory row of the
\* matrix built from them, is a non-negative integer.
C7_QuantitiesNonNegative ==
    /\ \A i \in 1..Len(offline.rows) : offline.rows[i].qty >= 0
    /\ table.kind = "grid" => \A c \in QtyCells(table) : c.t = "int" /\ c.n >= 0

(***************************************************************************)
(* Properties of format_inventory_table, under SpecMatrix.                 *)
(***************************************************************************)
\* the warehouse rows of a grid: all rows between the header and the last
WarehouseRowsOf(t) == SubSeq(t.rows, 4, Len(t.rows) - 1)

RECURSIVE ColumnSum(_, _)
ColumnSum(rows, k) ==
    IF rows = <<>> THEN 0 ELSE Head(rows).cells[k].n + ColumnSum(Tail(rows), k)

\* C8: in every table with size columns, the Total Inventory cell of each
\* size is the sum of that size's cells over all warehouse rows of the table.
C8_TotalIsColumnSum ==
    table.kind = "grid" =>
        \A k \in 1..Len(table.columns) :
            table.rows[Len(table.rows)].cells[k].n = ColumnSum(WarehouseRowsOf(table), k)

\* a total of 8 made of a 5 and a 3 in two warehouse rows
C8_Witness ==
    /\ table.kind = "grid"
    /\ Len(table.rows) = 6
    /\ table.rows[4].cells[1].n = 5
    /\ table.rows[5].cells[1].n = 3
    /\ table.rows[6].cells[1].n = 8

\* the labels the rows of the first style are filed under
LabelsOf(rows) ==
    {WarehouseLabel(rows[i]) :
        i \in {j \in 1..Len(rows) : rows[j].style = rows[1].style}}

\* C9: every table with size columns has its rows in this order: 'Price: $',
\* 'Case Size', 'Warehouse' (echoing the size labels), the warehouse rows,
\* then 'Total Inventory' last, and no other row.
C9_RowOrder ==
    table.kind = "grid" =>
        /\ Len(table.rows) = 4 + Cardinality(LabelsOf(inventory_rows))
        /\ table.rows[1].label = PriceLabel
        /\ table.rows[2].label = CaseSizeLabel
        /\ table.rows[3].label = HeaderLabel
        /\ \A k \in 1..Len(table.columns) : table.rows[3].cells[k] = JStr(table.columns[k])
        /\ {table.rows[i].label : i \in 4..(Len(table.rows) - 1)} = LabelsOf(inventory_rows)
        /\ table.rows[Len(table.rows)].label = TotalLabel

\* a grid with two warehouse rows and two size columns
C9_Witness ==
    /\ table.kind = "grid"
    /\ Len(table.rows) = 6
    /\ Len(table.columns) = 2

\* C10: the Case Size row holds the same value in every size column, and that
\* value is 12 when the rows supply no case size.
C10_CaseSizeTwelve ==
    table.kind = "grid" =>
        \A k \in 1..Len(table.columns) : table.rows[2].cells[k] = JInt(12)

(***************************************************************************)
(* The parser on payloads of several price maps and warehouses lists.       *)
(***************************************************************************)
InitFields ==
    /\ Blank
    /\ pc = "file"
    /\ slug = <<"A">>
    /\ payload \in FieldPayloads
    /\ inventory_rows = <<>>

NextFields == JsonFile \/ DisplayRows

SpecFields == InitFields /\ [][NextFields]_vars

(***************************************************************************)
(* The parser and the matrix on payloads of several size values.            *)
(***************************************************************************)
InitSizes ==
    /\ Blank
    /\ pc = "file"
    /\ slug = <<"A">>
    /\ payload \in SizePayloads
    /\ inventory_rows = <<>>

NextSizes == JsonFile \/ DisplayRows

SpecSizes == InitSizes /\ [][NextSizes]_vars

(***************************************************************************)
(* main: from the --styles text to the list handed to the fetch loop.       *)
(***************************************************************************)
InitStyles ==
    /\ BlankFetch
    /\ pc = "discover"
    /\ entry = "cli"
    /\ backend \in Backends
    /\ settings = NoSettings
    /\ raw_styles \in TokenLists
    /\ styles = <<>>
    /\ idx = 1
    /\ all_rows = <<>>
    /\ events = <<>>
    /\ exit_code = NotReturned
    /\ exported = NoFrame
    /\ request = NoRequest
    /\ logged = NoRequest

\* main, lines 83-106: the styles of --styles, deduplicated; return 1 when
\* there is none
DiscoverStyles ==
    /\ pc = "discover"
    /\ styles' = DiscoveredStyles(raw_styles, backend)
    /\ IF styles' = <<>>
       THEN pc' = "returned" /\ exit_code' = 1
       ELSE pc' = "styles" /\ exit_code' = exit_code
    /\ UNCHANGED <<fetchVars, entry, backend, settings, raw_styles, idx, all_rows, events,
                   exported, request, logged>>

NextStyles == DiscoverStyles

SpecStyles == InitStyles /\ [][NextStyles]_vars

(***************************************************************************)
(* The batch loops: main of the CLI and the three fetch handlers of the     *)
(* dashboard.  events records the credential check, the calls and the       *)
(* delays in the order they happen.                                         *)
(***************************************************************************)
InitBatch ==
    /\ BlankFetch
    /\ pc = "start"
    /\ entry \in Entries
    /\ backend \in Backends
    /\ settings \in SettingsOf(IF entry = "selected" THEN BOOLEAN ELSE {FALSE})
    /\ raw_styles = <<>>
    /\ styles \in ItemLists(IF entry \in {"cli", "manual"} THEN StyleItems ELSE SearchItems)
    /\ entry = "cli" => styles # <<>>
    /\ idx = 1
    /\ all_rows = <<>>
    /\ events = <<>>
    /\ exit_code = NotReturned
    /\ exported = NoFrame
    /\ request = NoRequest
    /\ logged = NoRequest

\* main, lines 114-135: validate the credentials, return 3 when one is
\* missing
CheckCredentials ==
    /\ pc = "start"
    /\ entry = "cli"
    /\ LET missing == MissingCredentials(backend, settings)
       IN  /\ events' = Append(events, CheckEvent(missing))
           /\ IF missing # {}
              THEN pc' = "returned" /\ exit_code' = 3
              ELSE pc' = "loop" /\ exit_code' = exit_code
    /\ UNCHANGED <<fetchVars, entry, backend, settings, raw_styles, styles, idx, all_rows,
                   exported, request, logged>>

\* the handlers up to their loop: the client is built from the settings as
\* they are; the manual handler warns and stops without codes or with the
\* webjson backend
StartHandler ==
    /\ pc = "start"
    /\ entry # "cli"
    /\ pc' = IF entry = "manual" /\ (styles = <<>> \/ backend = "webjson")
             THEN "warned"
             ELSE "loop"
    /\ UNCHANGED <<fetchVars, entry, backend, settings, raw_styles, styles, idx, all_rows,
                   events, exit_code, exported, request, logged>>

\* a loop that stops at the first call that gives no rows
NextIndexAborting(i, outcome) == IF outcome = "rows" THEN i + 1 ELSE Len(styles) + 1

\* the for loops: the item after item i, whatever the call on item i gave
NextIndex(i, outcome) == i + 1

\* one turn of a loop: no call for a skipped item; else the call, the rows
\* it gave when it gave rows, the delay when the loop has one
ItemStep(via, kept, delay) ==
    /\ pc = "loop"
    /\ idx <= Len(styles)
    /\ IF via = "skip"
       THEN /\ idx' = idx + 1
            /\ UNCHANGED <<events, all_rows>>
       ELSE \E outcome \in CallOutcomes :
               /\ events' = events \o <<CallEvent(idx, via, outcome)>>
                                   \o (IF delay THEN <<SleepEvent(idx)>> ELSE <<>>)
               /\ all_rows' = all_rows \o (IF outcome = "rows" THEN kept ELSE <<>>)
               /\ idx' = NextIndex(idx, outcome)
    /\ UNCHANGED <<fetchVars, pc, entry, backend, settings, raw_styles, styles, exit_code,
                   exported, request, logged>>

\* main, lines 139-159
CliItem ==
    /\ entry = "cli"
    /\ idx <= Len(styles)
    /\ ItemStep(CliVia(backend), <<FullRow(styles[idx].key, JNull)>>, FALSE)

\* the manual handler, lines 362-395
ManualItem ==
    /\ entry = "manual"
    /\ idx <= Len(styles)
    /\ ItemStep("soap", <<FullRow(styles[idx].key, JNull)>>, FALSE)

\* the handler of the selected products, lines 487-570
SelectedItem ==
    /\ entry = "selected"
    /\ idx <= Len(styles)
    /\ ItemStep(SelectedVia(backend, settings, styles[idx]),
                <<AnnotatedRow(styles[idx].key)>>, FALSE)

\* the handler of ALL results, lines 687-762
AllItem ==
    /\ entry = "all"
    /\ idx <= Len(styles)
    /\ ItemStep(AllVia(backend, styles[idx]), <<AnnotatedRow(styles[idx].key)>>, TRUE)

\* after the loop: main returns 4 without rows, else saves and returns 0;
\* a handler goes on to its display
Finish ==
    /\ pc = "loop"
    /\ idx > Len(styles)
    /\ IF entry = "cli"
       THEN /\ pc' = "returned"
            /\ IF all_rows = <<>>
               THEN exit_code' = 4 /\ exported' = exported
               ELSE exit_code' = 0 /\ exported' = rows_to_dataframe(all_rows)
       ELSE /\ pc' = "done"
            /\ UNCHANGED <<exit_code, exported>>
    /\ UNCHANGED <<fetchVars, entry, backend, settings, raw_styles, styles, idx, all_rows,
                   events, request, logged>>

NextBatch ==
    \/ CheckCredentials
    \/ StartHandler
    \/ CliItem
    \/ ManualItem
    \/ SelectedItem
    \/ AllItem
    \/ Finish

SpecBatch == InitBatch /\ [][NextBatch]_vars

(***************************************************************************)
(* The debug displays of the dashboard: the headers of a live search and    *)
(* the request XML of a fetched item.                                       *)
(***************************************************************************)
InitLog ==
    /\ BlankFetch
    /\ pc \in {"search", "item"}
    /\ entry = "none"
    /\ backend \in {"promostandards", "standard"}
    /\ settings = NoSettings
    /\ raw_styles = <<>>
    /\ styles = <<>>
    /\ idx = 1
    /\ all_rows = <<>>
    /\ events = <<>>
    /\ exit_code = NotReturned
    /\ exported = NoFrame
    /\ \E cookie \in CookieValues, extra \in ExtraHeaders, xml \in RequestXmls :
          request = [xml |-> IF pc = "item" THEN xml ELSE <<>>,
                     headers |-> IF pc = "search"
                                 THEN build_headers_for_query(cookie, extra)
                                 ELSE <<>>]
    /\ logged = NoRequest

\* Live Search logs, lines 298-319: the headers of the request, sanitized
LogSearch ==
    /\ pc = "search"
    /\ logged' = [logged EXCEPT !.headers = sanitize_headers_for_log(request.headers)]
    /\ pc' = "search_logged"
    /\ UNCHANGED <<fetchVars, entry, backend, settings, raw_styles, styles, idx, all_rows,
                   events, exit_code, exported, request>>

\* the item payload of a fetch handler, lines 542-565: the last request XML
\* of the client, sanitized
LogItem ==
    /\ pc = "item"
    /\ logged' = [logged EXCEPT !.xml = sanitize_xml_for_log(request.xml)]
    /\ pc' = "item_logged"
    /\ UNCHANGED <<fetchVars, entry, backend, settings, raw_styles, styles, idx, all_rows,
                   events, exit_code, exported, request>>

NextLog == LogSearch \/ LogItem

SpecLog == InitLog /\ [][NextLog]_vars

(***************************************************************************)
(* The flat export of a list of rows.                                       *)
(***************************************************************************)
InitExport ==
    /\ BlankFetch
    /\ pc = "export"
    /\ entry = "none"
    /\ backend = "webjson"
    /\ settings = NoSettings
    /\ raw_styles = <<>>
    /\ styles = <<>>
    /\ idx = 1
    /\ all_rows \in ExportRowLists
    /\ events = <<>>
    /\ exit_code = NotReturned
    /\ exported = NoFrame
    /\ request = NoRequest
    /\ logged = NoRequest

\* save_rows: df = rows_to_dataframe(rows)
SaveRows ==
    /\ pc = "export"
    /\ exported' = rows_to_dataframe(all_rows)
    /\ pc' = "saved"
    /\ UNCHANGED <<fetchVars, entry, backend, settings, raw_styles, styles, idx, all_rows,
                   events, exit_code, request, logged>>

NextExport == SaveRows

SpecExport == InitExport /\ [][NextExport]_vars

(***************************************************************************)
(* The matrix on rows that carry a price.                                   *)
(***************************************************************************)
InitPriced ==
    /\ Blank
    /\ pc = "rows"
    /\ slug = <<>>
    /\ payload = NotJson
    /\ inventory_rows \in RowListsWithPrices

NextPriced == DisplayRows

SpecPriced == InitPriced /\ [][NextPriced]_vars

(***************************************************************************)
(* format_inventory_table called with a pricing_data dict.                  *)
(***************************************************************************)
InitPricing ==
    /\ attempted_urls = <<>>
    /\ net = <<>>
    /\ resp = NoResponse
    /\ resp2 = NoResponse
    /\ result = NoResult
    /\ offline = NotRun
    /\ table = NoTable
    /\ display = NoTable
    /\ pc = "rows"
    /\ slug = <<>>
    /\ payload = NotJson
    /\ inventory_rows \in PricedRowLists
    /\ pricing_data \in PricingDicts
    /\ BlankBatch

\* format_inventory_table(inventory_rows, pricing_data)
FormatWithPricing ==
    /\ pc = "rows"
    /\ table' \in format_inventory_table(inventory_rows, pricing_data)
    /\ pc' = "shown"
    /\ UNCHANGED <<slug, attempted_urls, net, resp, resp2, result, payload, offline,
                   inventory_rows, display, pricing_data, batchVars>>

NextPricing == FormatWithPricing

SpecPricing == InitPricing /\ [][NextPricing]_vars

(***************************************************************************)
(* The matrix on products of several warehouses and several sizes.          *)
(***************************************************************************)
InitOrder ==
    /\ Blank
    /\ pc = "rows"
    /\ slug = <<>>
    /\ payload = NotJson
    /\ inventory_rows \in OrderRowLists

NextOrder == DisplayRows

SpecOrder == InitOrder /\ [][NextOrder]_vars

\* the rows of the first style of a row list
FirstStyleOnly(rows) ==
    IF rows = <<>> THEN <<>>
    ELSE LET keep == {i \in 1..Len(rows) : rows[i].style = rows[1].style}
             nth(k) == CHOOSE i \in keep : Cardinality({j \in keep : j <= i}) = k
         IN  [k \in 1..Cardinality(keep) |-> rows[nth(k)]]

\* C11: the matrix has exactly one warehouse row for each distinct warehouse
\* label of the product's rows, a warehouse whose quantity is zero for every
\* size included; no warehouse of the input is left out.
C11_OneRowPerWarehouse ==
    table.kind = "grid" =>
        \A label \in LabelsOf(inventory_rows) :
            Cardinality({i \in 4..(Len(table.rows) - 1) : table.rows[i].label = label}) = 1

\* a grid with a warehouse row of zeros beside a warehouse row with stock
C11_Witness ==
    /\ table.kind = "grid"
    /\ Len(table.rows) = 6
    /\ \A k \in 1..Len(table.columns) : table.rows[4].cells[k].n = 0
    /\ \E k \in 1..Len(table.columns) : table.rows[5].cells[k].n > 0

\* C15: format_inventory_table considers only the style of the first row: the
\* table is the one built from the rows of that style alone, whatever the rows
\* of any other style are.
C15_FirstStyleOnly ==
    pc = "shown" =>
        table \in format_inventory_table(FirstStyleOnly(inventory_rows), <<>>)

\* a grid built from a list whose second row is of another style, another
\* warehouse and another size than the first
C15_Witness ==
    /\ pc = "shown"
    /\ table.kind = "grid"
    /\ Len(inventory_rows) = 2
    /\ inventory_rows[2].style # inventory_rows[1].style
    /\ inventory_rows[2].warehouse # inventory_rows[1].warehouse
    /\ Upper(inventory_rows[2].size) # Upper(inventory_rows[1].size)
    /\ inventory_rows[2].size # <<>>
    /\ inventory_rows[2].qty > 0

\* C16 as claimed: given an empty list of rows, format_inventory_table returns
\* a table with exactly one informational cell, not a table with no rows and
\* no columns.
C16_FormatGivesMessage ==
    (pc = "shown" /\ inventory_rows = <<>>) => table.kind = "message"

\* C16, amended: given an empty list of rows, format_inventory_table returns
\* the table with no rows and no columns, without raising, and
\* create_inventory_display_table, through which every caller builds the
\* matrix, turns it into the table with exactly one informational cell.
C16_DisplayGivesMessage ==
    (pc = "shown" /\ inventory_rows = <<>>) =>
        /\ table = EmptyTable
        /\ display = MessageTable("No inventory data available")

\* the display of an empty row list
C16_Witness ==
    /\ pc = "shown"
    /\ inventory_rows = <<>>
    /\ display.kind = "message"

\* the rows with the quantity of every row of empty size set to 0
ZeroEmptySized(rows) ==
    [i \in 1..Len(rows) |-> IF rows[i].size = <<>> THEN [rows[i] EXCEPT !.qty = 0] ELSE rows[i]]

\* C17: a row whose size is empty adds no size column and its quantity is
\* counted in no cell and no total; when no row of the product has a size,
\* format_inventory_table returns the one-cell informational table.
C17_EmptySizeLeftOut ==
    pc = "shown" =>
        /\ table.kind = "grid" => \A k \in 1..Len(table.columns) : table.columns[k] # <<>>
        /\ table \in format_inventory_table(ZeroEmptySized(inventory_rows), <<>>)
        /\ (/\ inventory_rows # <<>>
            /\ \A i \in 1..Len(FirstStyleOnly(inventory_rows)) :
                   FirstStyleOnly(inventory_rows)[i].size = <<>>)
           => table = MessageTable("No size data available")

\* a grid of a list that holds a row of empty size with stock, in a warehouse
\* that has a sized row too
C17_Witness ==
    /\ pc = "shown"
    /\ table.kind = "grid"
    /\ Len(inventory_rows) = 2
    /\ inventory_rows[1].style = inventory_rows[2].style
    /\ inventory_rows[1].warehouse = inventory_rows[2].warehouse
    /\ inventory_rows[1].size # <<>>
    /\ inventory_rows[2].size = <<>>
    /\ inventory_rows[2].qty > inventory_rows[1].qty

(***************************************************************************)
(* The order of the warehouse rows and of the size columns, under SpecOrder *)
(***************************************************************************)
\* the labels of the warehouse rows of a grid, top to bottom
WarehouseLabels(df) == [i \in 1..(Len(df.rows) - 4) |-> df.rows[i + 3].label]

KnownPos(w) == CHOOSE i \in 1..Len(known_order) : known_order[i] = w

\* the rows of the example: Dallas, TX with 5 of M and Reno, NV with 3 of M
ExampleRows == RowsOf(<< << <<"1">>, Dallas, 5 >>, << <<"2">>, Reno, 3 >> >>, << <<"M">> >>)

\* C12: the warehouse rows are the warehouses of the known-order table, in
\* the table's order, followed by the other warehouses in lexicographic order
\* of their name; for the rows {Dallas, TX, M, 5} and {Reno, NV, M, 3} Dallas
\* comes before Reno and the Total of size M is 8.
C12_WarehouseRowOrder ==
    table.kind = "grid" =>
        LET labels == WarehouseLabels(table)
        IN  /\ \A i, j \in 1..Len(labels) : i < j =>
                  /\ InKnownOrder(labels[j]) =>
                        /\ InKnownOrder(labels[i])
                        /\ KnownPos(labels[i]) < KnownPos(labels[j])
                  /\ (~InKnownOrder(labels[i]) /\ ~InKnownOrder(labels[j])) =>
                        StrLess(labels[i], labels[j])
            /\ inventory_rows = ExampleRows =>
                  /\ labels = <<Dallas, Reno>>
                  /\ table.columns = << <<"M">> >>
                  /\ table.rows[Len(table.rows)].cells = <<JInt(8)>>

\* a grid of a product whose rows name an unnamed warehouse first, then a
\* named one outside the table, then one of the table
C12_Witness ==
    /\ table.kind = "grid"
    /\ Len(inventory_rows) = 3
    /\ inventory_rows[1].warehouse = <<>>
    /\ inventory_rows[2].warehouse = Acme
    /\ inventory_rows[3].warehouse = Reno
    /\ WarehouseLabels(table) = <<Reno, Acme, WarehousePrefix \o <<"3">> >>

\* the sizes of the claimed chain and the position of each
SizeChain ==
    << <<"X", "S">>, <<"S">>, <<"M">>, <<"L">>, <<"X", "L">>, <<"L", "T">>,
       <<"X", "L", "T">>, <<"2", "X", "L", "T">>, <<"3", "X", "L", "T">>,
       <<"4", "X", "L", "T">> >>
InChain(sz) == \E i \in 1..Len(SizeChain) : SizeChain[i] = sz
ChainPos(sz) == CHOOSE i \in 1..Len(SizeChain) : SizeChain[i] = sz
DigitLeading(sz) == sz # <<>> /\ IsDigit(sz[1])

\* the part of C13 about the listed sizes: a column of the chain is left of
\* every later column of the chain, no column with a leading digit is left
\* of a letter-only column of the chain, and columns with different leading
\* digits are in the order of the digit
SizeColumnsFollowChain ==
    table.kind = "grid" =>
        \A i, j \in 1..Len(table.columns) : (i < j) =>
            LET a == table.columns[i]
                b == table.columns[j]
            IN  /\ (InChain(a) /\ InChain(b)) => ChainPos(a) < ChainPos(b)
                /\ (InChain(b) /\ ~DigitLeading(b)) => ~DigitLeading(a)
                /\ (DigitLeading(a) /\ DigitLeading(b)) => DigitVal(a[1]) <= DigitVal(b[1])

\* C13: the size columns are sorted by an order that is total on the sizes
\* present (the rows determine the order of the columns) and consistent with
\* XS < S < M < L < XL < LT < XLT < 2XLT < 3XLT < 4XLT, sizes with a leading
\* digit after the letter-only sizes of the table and by increasing digit.
C13_SizeOrderTotal ==
    /\ SizeColumnsFollowChain
    /\ table.kind = "grid" =>
          \A df \in format_inventory_table(inventory_rows, <<>>) : df.columns = table.columns

\* a size that has no leading digit and is not in the lookup table
UnknownSize(sz) ==
    /\ Strip(sz) # <<>>
    /\ ~DigitLeading(Strip(sz))
    /\ ~DictHas(size_order, Strip(sz))

\* the part of C14 about where the unknown sizes are: right of every other column
UnknownSizesLast ==
    table.kind = "grid" =>
        \A i, j \in 1..Len(table.columns) :
            (i < j /\ UnknownSize(table.columns[i])) => UnknownSize(table.columns[j])

\* C14: a size that is not in the size lookup table is right of every size
\* that is in it and of every size with a leading digit, and two such sizes
\* are in the order of their names.
C14_UnknownSizesByName ==
    /\ UnknownSizesLast
    /\ table.kind = "grid" =>
          \A i, j \in 1..Len(table.columns) :
              (i < j /\ UnknownSize(table.columns[i]) /\ UnknownSize(table.columns[j]))
                  => StrLess(table.columns[i], table.columns[j])

(***************************************************************************)
(* Prices and warehouse names of the parsed rows, under SpecFields          *)
(***************************************************************************)
\* the price map of the variant of a payload of FieldPayloads
PriceMapOf(data) == data.product.variantOptions.items[1].priceDataMap

\* a formattedValue that is a number as text, and the number in hundredths
IsNumeric(fv) == fv \in {JStr(<<"9", ".", "5">>), JStr(<<"1", "2">>)}
NumberOf(fv) == IF fv = JStr(<<"9", ".", "5">>) THEN JFloat(950) ELSE JFloat(1200)

HasNumeric(price_map, key) ==
    \E i \in 1..Len(price_map) : price_map[i][1] = key /\ IsNumeric(price_map[i][2])

NumericUnder(price_map, key) ==
    NumberOf(price_map[CHOOSE i \in 1..Len(price_map) : price_map[i][1] = key][2])

\* the price the priority rule gives
PriceByPriority(price_map) ==
    IF HasNumeric(price_map, "3") THEN NumericUnder(price_map, "3")
    ELSE IF HasNumeric(price_map, "UPG") THEN NumericUnder(price_map, "UPG")
    ELSE IF \E i \in 1..Len(price_map) : IsNumeric(price_map[i][2])
    THEN NumberOf(price_map[CHOOSE i \in 1..Len(price_map) :
                      /\ IsNumeric(price_map[i][2])
                      /\ \A j \in 1..(i - 1) : ~IsNumeric(price_map[j][2])][2])
    ELSE JNull

\* C18: the price of a variant's rows is the number under key "3" of its
\* price map, else the number under "UPG", else the first number of the map,
\* else None (also for an empty map); a formattedValue that is no number
\* never makes the parse fail.
C18_PriceByPriority ==
    pc \in {"rows", "shown"} =>
        /\ ~offline.raised
        /\ Len(inventory_rows) = 2
        /\ \A i \in 1..Len(inventory_rows) :
               inventory_rows[i].price = PriceByPriority(PriceMapOf(payload))

\* rows parsed from a price map whose first entry has a number and whose
\* second entry, under "UPG", has another: the rows carry the second
C18_Witness ==
    /\ pc = "rows"
    /\ Len(PriceMapOf(payload)) = 2
    /\ PriceMapOf(payload)[1] = << "1", JStr(<<"1", "2">>) >>
    /\ PriceMapOf(payload)[2] = << "UPG", JStr(<<"9", ".", "5">>) >>
    /\ inventory_rows[1].price = JFloat(950)

\* the upstream source gives a name for a warehouse id
SourceNames(data, whse_id) ==
    \E i \in 1..Len(data.warehouses) :
        /\ data.warehouses[i].code = JStr(whse_id)
        /\ (Truthy(data.warehouses[i].shortName) \/ Truthy(data.warehouses[i].name))

\* the part of C20 about the pivot: it does not fail for want of a name
PivotSurvivesMissingName ==
    pc = "shown" => table.kind = "grid"

\* C20: when the source gives no name for a warehouse id, the warehouse field
\* of the rows of that id is "Warehouse {warehouseId}" and so is the label of
\* their row in the matrix, and the pivot does not fail.
C20_WarehouseFallbackLabel ==
    /\ PivotSurvivesMissingName
    /\ \A i \in 1..Len(inventory_rows) :
          ~SourceNames(payload, inventory_rows[i].warehouseId) =>
              /\ inventory_rows[i].warehouse = WarehousePrefix \o inventory_rows[i].warehouseId
              /\ pc = "shown" =>
                    \E k \in 4..(Len(table.rows) - 1) :
                        table.rows[k].label = WarehousePrefix \o inventory_rows[i].warehouseId

(***************************************************************************)
(* The Price row of format_inventory_table, under SpecPricing               *)
(***************************************************************************)
IsNumber(v) == v.t \in {"int", "float"}

\* C19: a price supplied for a size that does not parse as a number is never
\* fatal: format_inventory_table does not raise in get_size_price, and the
\* Price cell of that size holds the price of the default table for the size,
\* or the global default.
C19_BadPriceNotFatal ==
    pc = "shown" =>
        /\ table.kind = "grid"
        /\ \A k \in 1..Len(table.columns) :
              (/\ DictHas(pricing_data, table.columns[k])
               /\ ~IsNumber(DictGet(pricing_data, table.columns[k])))
                  => table.rows[1].cells[k] = JStr(Fmt2f(BasePrice(table.columns[k])))

\* the part of C19 that holds: a supplied number is shown with two decimals
SuppliedNumbersShown ==
    (pc = "shown" /\ table.kind = "grid") =>
        \A k \in 1..Len(table.columns) :
            DictHas(pricing_data, table.columns[k]) =>
                /\ IsNumber(DictGet(pricing_data, table.columns[k]))
                /\ table.rows[1].cells[k] \in
                       {JStr(<<"1", "9", ".", "9", "9">>), JStr(<<"2", "0", ".", "0", "0">>)}

(***************************************************************************)
(* When fetch_inventory_json retries, under Spec                            *)
(***************************************************************************)
\* the first attempt was answered with a status that is not 2xx or with a
\* body that is no JSON
FirstAnswerFailed ==
    /\ Len(net) >= 1
    /\ net[1].outcome.kind = "response"
    /\ \/ net[1].outcome.status < 200
       \/ net[1].outcome.status >= 300
       \/ net[1].outcome.doc.t = "none"

\* the first attempt was answered and its try block raised: a 4xx or 5xx
\* status, a body that is no JSON, or a payload the parser raises on
FirstTryRaised ==
    /\ Len(net) >= 1
    /\ net[1].outcome.kind = "response"
    /\ \/ net[1].outcome.status >= 400
       \/ net[1].outcome.doc.t = "none"
       \/ net[1].outcome.doc.t = "list"
       \/ net[1].outcome.doc.product.variantOptions.isNull

\* the slug has an underscore and text before its first underscore
HasBaseStyle(s) == Contains(s, "_") /\ Head(s) # "_"

\* C27 as claimed: the retry is sent if and only if the first attempt failed
\* with a non-2xx status or a JSON-decode failure and the slug has a color
\* suffix; otherwise exactly one request is made, and the error envelope of a
\* slug without underscore lists exactly one URL.
C27_RetryIffDecodeFailed ==
    Finished =>
        /\ Len(net) \in 1..2
        /\ (Len(net) = 2) <=> (FirstAnswerFailed /\ ColorSuffixed(slug))
        /\ (~result.raised /\ result.error /\ ~Contains(slug, "_"))
               => Len(result.message.urls) = 1

\* C27, amended: the retry is sent if and only if the first attempt was
\* answered and its try block raised (4xx or 5xx status, JSON-decode failure,
\* or a payload the parser raises on) and the slug has text before its first
\* underscore; otherwise exactly one request is made, and the error envelope
\* of a slug that is not retried lists exactly one URL.
C27_RetryIffTryRaised ==
    Finished =>
        /\ Len(net) \in 1..2
        /\ (Len(net) = 2) <=> (FirstTryRaised /\ HasBaseStyle(slug))
        /\ Len(net) = 2 => net[2].url = Url(SplitHead(slug, "_"))
        /\ (~result.raised /\ result.error /\ ~HasBaseStyle(slug))
               => Len(result.message.urls) = 1

\* a retry sent after a 200 answer whose JSON the parser raised on
C27_Witness ==
    /\ Finished
    /\ Len(net) = 2
    /\ net[1].outcome.status = 200
    /\ net[1].outcome.doc.t = "list"

(***************************************************************************)
(* Rows of the same warehouse and size, under SpecMatrix                    *)
(***************************************************************************)
\* the rows of the product filed under a warehouse label and a size column
SameCell(label, size) ==
    {i \in 1..Len(inventory_rows) :
        /\ inventory_rows[i].style = inventory_rows[1].style
        /\ WarehouseLabel(inventory_rows[i]) = label
        /\ Upper(inventory_rows[i].size) = size}

\* the sum of the quantities of the product's rows of a size
RECURSIVE InputSum(_, _)
InputSum(rows, size) ==
    IF rows = <<>> THEN 0
    ELSE (IF Upper(Head(rows).size) = size THEN Head(rows).qty ELSE 0)
         + InputSum(Tail(rows), size)

\* C28: when several rows of the product have the same warehouse label and
\* the same upper-cased size, the cell of that warehouse and size holds the
\* quantity of the last of them in input order (0 when there is none): the
\* quantities are overwritten, not summed.
C28_LastRowWins ==
    table.kind = "grid" =>
        \A r \in 4..(Len(table.rows) - 1) : \A k \in 1..Len(table.columns) :
            LET same == SameCell(table.rows[r].label, table.columns[k])
            IN  table.rows[r].cells[k] =
                    JInt(IF same = {} THEN 0
                         ELSE inventory_rows[CHOOSE i \in same : \A j \in same : j <= i].qty)

\* two rows of one warehouse and one size with stock in both: the Total
\* Inventory of the size is smaller than the sum of the two quantities
C28_Witness ==
    /\ table.kind = "grid"
    /\ Len(inventory_rows) = 2
    /\ Len(table.columns) = 1
    /\ Cardinality(SameCell(table.rows[4].label, table.columns[1])) = 2
    /\ inventory_rows[1].qty > 0
    /\ inventory_rows[2].qty > 0
    /\ table.rows[Len(table.rows)].cells[1].n
           < InputSum(FirstStyleOnly(inventory_rows), table.columns[1])

(***************************************************************************)
(* The price field of the rows and the matrix, under SpecPriced             *)
(***************************************************************************)
\* the rows with every price field set to None
PriceErased(rows) == [i \in 1..Len(rows) |-> [rows[i] EXCEPT !.price = JNull]]

\* the text of the default price of a size column of PricedSizes
DefaultPriceText(size) ==
    IF size = <<"2", "X", "L", "T">> THEN <<"3", "8", ".", "2", "6">>
    ELSE <<"3", "7", ".", "2", "6">>

\* C29: the price field of the rows has no influence on the matrix: the table
\* of create_inventory_display_table is the table of the same rows without
\* their prices, and its Price row holds the default price of each size.
C29_PriceFieldIgnored ==
    pc = "shown" =>
        /\ table \in format_inventory_table(PriceErased(inventory_rows), <<>>)
        /\ display = table
        /\ table.kind = "grid"
        /\ \A k \in 1..Len(table.columns) :
               table.rows[1].cells[k] = JStr(DefaultPriceText(table.columns[k]))

\* the display of rows of two sizes that carry two different prices
C29_Witness ==
    /\ pc = "shown"
    /\ Len(inventory_rows) = 2
    /\ inventory_rows[1].price = JFloat(950)
    /\ inventory_rows[2].price = JFloat(1200)
    /\ inventory_rows[2].size = <<"2", "X", "L", "T">>
    /\ display.rows[1].cells = <<JStr(<<"3", "7", ".", "2", "6">>), JStr(<<"3", "8", ".", "2", "6">>)>>

(***************************************************************************)
(* The matrix of whatever the parser emits, under SpecSizes                 *)
(***************************************************************************)
\* a row whose size is made of whitespace only
BlankSized(row) == row.size # <<>> /\ Strip(row.size) = <<>>

\* the part of C30 that holds: without a row of whitespace-only size in the
\* product, format_inventory_table returns a table
OtherSizesGiveTable ==
    (pc = "shown" /\ \A i \in 1..Len(inventory_rows) : ~BlankSized(inventory_rows[i]))
        => table.kind \in {"grid", "message"}

\* C30: for every row list parse_inventory_json emits (sizes empty,
\* whitespace-only, lower-case or in no lookup table, warehouse names empty),
\* format_inventory_table returns a table without raising.
C30_MatrixNeverRaises ==
    pc = "shown" => table.kind \in {"empty", "grid", "message"}

(***************************************************************************)
(* The columns of the flat export, under SpecExport                         *)
(***************************************************************************)
\* the fields of the Canonical Row, in the order the data model lists them
CanonicalFields ==
    << "style", "partId", "color", "size", "description", "warehouseId", "warehouse",
       "qty", "totalAvailable", "price" >>

IsNull(v) == v.t \in {"null", "nan"}

AsIdentifier(tok) == IF backend = "webjson" THEN tok ELSE Upper(tok)

\* where an identifier first occurs in the caller's input
FirstOccurrence(x) ==
    CHOOSE k \in 1..Len(raw_styles) :
        /\ AsIdentifier(raw_styles[k]) = x
        /\ \A j \in 1..(k - 1) : AsIdentifier(raw_styles[j]) # x

\* the part of C24 that holds: the identifiers are identifiers of the input,
\* none empty and none twice, and for webjson in the order of the input
StylesDistinctNonEmpty ==
    pc = "styles" =>
        /\ \A i \in 1..Len(styles) :
              /\ styles[i] # <<>>
              /\ \E k \in 1..Len(raw_styles) : AsIdentifier(raw_styles[k]) = styles[i]
        /\ \A i, j \in 1..Len(styles) : i # j => styles[i] # styles[j]
        /\ backend = "webjson" =>
              \A i, j \in 1..Len(styles) :
                  i < j => FirstOccurrence(styles[i]) < FirstOccurrence(styles[j])

\* C24: the list handed to the fetch loop has no duplicate and no empty
\* string and keeps the identifiers in the order of their first occurrence in
\* the caller's input, for every backend.
C24_FirstOccurrenceOrder ==
    /\ StylesDistinctNonEmpty
    /\ pc = "styles" =>
          \A i, j \in 1..Len(styles) :
              i < j => FirstOccurrence(styles[i]) < FirstOccurrence(styles[j])

(***************************************************************************)
(* Masking in the debug displays, under SpecLog                             *)
(***************************************************************************)
\* a header that carries a credential, however its name is written
IsCredentialHeader(name) == Upper(name) \in {Upper(Cookie), Upper(Authorization)}

\* the part of C26 that holds: the logged headers are the headers of the
\* request, in their order, with the values under the exact names Cookie and
\* Authorization masked and every other value unchanged; the logged XML has
\* the contents of the credential elements masked, all other elements
\* unchanged
ExactNamesMasked ==
    /\ pc = "search_logged" =>
          /\ Len(logged.headers) = Len(request.headers)
          /\ \A i \in 1..Len(request.headers) :
                /\ logged.headers[i][1] = request.headers[i][1]
                /\ logged.headers[i][2] =
                      IF request.headers[i][1] \in {Cookie, Authorization}
                      THEN Stars
                      ELSE request.headers[i][2]
    /\ pc = "item_logged" =>
          /\ Len(logged.xml) = Len(request.xml)
          /\ \A i \in 1..Len(request.xml) :
                /\ logged.xml[i].tag = request.xml[i].tag
                /\ logged.xml[i].text =
                      IF request.xml[i].tag \in MaskedTags
                      THEN <<"*", "*", "*">>
                      ELSE request.xml[i].text

\* C26: what the dashboard displays of a request has its credentials masked:
\* the contents of arg0, arg1, arg2, id and password in the XML, and the
\* values of Cookie and Authorization in the headers whatever the case of
\* the header name; all other headers are unchanged.
C26_CredentialsMasked ==
    /\ pc = "item_logged" =>
          \A i \in 1..Len(logged.xml) :
              logged.xml[i].tag \in {"arg0", "arg1", "arg2", "id", "password"}
                  => logged.xml[i].text = <<"*", "*", "*">>
    /\ pc = "search_logged" =>
          /\ Len(logged.headers) = Len(request.headers)
          /\ \A i \in 1..Len(logged.headers) :
                /\ logged.headers[i][1] = request.headers[i][1]
                /\ logged.headers[i][2] =
                      IF IsCredentialHeader(logged.headers[i][1])
                      THEN Stars
                      ELSE request.headers[i][2]

(***************************************************************************)
(* The batch loops, under SpecBatch                                         *)
(***************************************************************************)
\* the positions of events at which a call is made
Calls == {i \in 1..Len(events) : events[i].kind = "call"}

\* the backend works with credentials
NeedsCredentials == backend \in {"promostandards", "standard"}

\* the credentials were checked, and found present, before event i
CheckedBefore(i) ==
    \E j \in 1..(i - 1) : events[j].kind = "check" /\ events[j].outcome = "present"

\* the part of C22 that holds: main checks before its first call, makes no
\* call with a credential missing and returns 3 then
CliChecksFirst ==
    entry = "cli" =>
        /\ \A i \in Calls : NeedsCredentials => CheckedBefore(i)
        /\ MissingCredentials(backend, settings) # {} => Calls = {}
        /\ (pc = "returned" /\ MissingCredentials(backend, settings) # {}) => exit_code = 3

\* C22: in every batch entry point, no call for inventory is made unless the
\* credentials the backend needs were checked to be present before it; with
\* a credential missing there is no call at all.
C22_CheckedBeforeAnyCall ==
    /\ \A i \in Calls : NeedsCredentials => CheckedBefore(i)
    /\ MissingCredentials(backend, settings) # {} => Calls = {}

\* the call a loop makes for its item i, or "skip"
ViaOf(i) ==
    IF entry = "cli" THEN CliVia(backend)
    ELSE IF entry = "manual" THEN "soap"
    ELSE IF entry = "selected" THEN SelectedVia(backend, settings, styles[i])
    ELSE AllVia(backend, styles[i])

\* the items up to n that have what their loop asks for to fetch them
RECURSIVE FetchedUpTo(_)
FetchedUpTo(n) ==
    IF n = 0 THEN <<>>
    ELSE FetchedUpTo(n - 1) \o (IF ViaOf(n) = "skip" THEN <<>> ELSE <<n>>)

\* the items called so far, in the order of the calls
RECURSIVE CalledItems(_)
CalledItems(ev) ==
    IF ev = <<>> THEN <<>>
    ELSE CalledItems(SubSeq(ev, 1, Len(ev) - 1))
             \o (IF ev[Len(ev)].kind = "call" THEN <<ev[Len(ev)].item>> ELSE <<>>)

\* the row of a call that gave rows, as its loop keeps it
KeptRow(i) ==
    IF entry \in {"selected", "all"}
    THEN AnnotatedRow(styles[i].key)
    ELSE FullRow(styles[i].key, JNull)

\* the rows of the calls that gave rows, in the order of the calls
RECURSIVE RowsOfCalls(_)
RowsOfCalls(ev) ==
    IF ev = <<>> THEN <<>>
    ELSE RowsOfCalls(SubSeq(ev, 1, Len(ev) - 1))
             \o (IF ev[Len(ev)].kind = "call" /\ ev[Len(ev)].outcome = "rows"
                 THEN <<KeptRow(ev[Len(ev)].item)>>
                 ELSE <<>>)

\* the loop has run to its end
LoopEnded == pc = "done" \/ (pc = "returned" /\ exit_code # 3)

\* C23: a call that raises or returns an error envelope never ends the
\* batch: in the loop and at its end, every item before the current one that
\* can be fetched was called, in order, the rows kept are the rows of the
\* calls that gave rows, in order, and the loop ends past the last item only.
C23_FailureNeverAborts ==
    (pc = "loop" \/ LoopEnded) =>
        /\ CalledItems(events) = FetchedUpTo(idx - 1)
        /\ all_rows = RowsOfCalls(events)
        /\ LoopEnded => idx = Len(styles) + 1

\* a batch whose first call raised or gave an error envelope and whose
\* second call gave the only row kept
C23_Witness ==
    /\ LoopEnded
    /\ Cardinality(Calls) = 2
    /\ \E i, j \in Calls :
          /\ i < j
          /\ events[i].outcome \in {"raises", "error"}
          /\ events[j].outcome = "rows"
          /\ all_rows = <<KeptRow(events[j].item)>>

\* the part of C25 that holds: the loop over ALL results sleeps after each
\* of its calls
AllLoopDelays ==
    entry = "all" =>
        \A i \in Calls : i < Len(events) /\ events[i + 1].kind = "sleep"

\* C25: in every batch loop a delay occurs between two consecutive calls.
C25_DelayBetweenCalls ==
    \A i, j \in Calls :
        i < j => \E k \in (i + 1)..(j - 1) : events[k].kind = "sleep"

=============================================================================
